---- MODULE Spec2Model ----
(***************************************************************************)
(* CyberChecker: the multi-step account checker (check_with_config) and    *)
(* the threaded scheduler (ConsoleChecker.check_combo / worker_thread).    *)
(* The repository ships the command-line checker twice: src/cli_checker.py *)
(* (SimpleHttpClient, no retry) and src/cli_mode.py (utils HttpClient,     *)
(* three attempts).  The variable `variant` says which one is running.     *)
(*                                                                         *)
(* Strings are sequences of one-character strings, so that substring       *)
(* search, trimming and integer parsing are computed, not assumed.         *)
(***************************************************************************)
EXTENDS Integers, Sequences, FiniteSets, TLC

\* ------------------------------------------------------------- bounds
MaxThreads == 2      \* worker threads of a run: 1..MaxThreads
MaxLines   == 2      \* lines of the combo file: 0..MaxLines
MaxSteps   == 2      \* request steps of a workflow: 0..MaxSteps
MaxSamples == 2      \* recomputations of the rate in a run: 0..MaxSamples
MaxRules   == 2      \* rules of a list given to _check_conditions: 1..MaxRules
MaxText    == 5      \* characters of a text given to extract_substring: 0..MaxText
MaxDepth   == 3      \* nesting of a request body: 0..MaxDepth

\* ------------------------------------------------------------ strings
Digits == <<"0", "1", "2", "3", "4", "5", "6", "7", "8", "9">>

IsDigit(c) == \E d \in 1..10 : Digits[d] = c

DigitVal(c) == (CHOOSE d \in 1..10 : Digits[d] = c) - 1

\* `sub in s` of Python: some window of s equals sub (the empty string is
\* in every string).
Contains(sub, s) ==
    \E k \in 0..(Len(s) - Len(sub)) :
        \A j \in 1..Len(sub) : s[k + j] = sub[j]

\* The first index >= from at which sub occurs in s; 0 when there is none.
Find(sub, s, from) ==
    LET hits_at == { k \in from..(Len(s) - Len(sub) + 1) :
                        \A j \in 1..Len(sub) : s[k + j - 1] = sub[j] }
    IN  IF hits_at = {} THEN 0
        ELSE CHOOSE k \in hits_at : \A m \in hits_at : k <= m

IsSpace(c) == c = " "

\* str.strip(): leading and trailing whitespace removed.
Strip(s) ==
    LET keep == { k \in 1..Len(s) : ~IsSpace(s[k]) }
    IN  IF keep = {} THEN <<>>
        ELSE LET lo == CHOOSE k \in keep : \A m \in keep : k <= m
                 hi == CHOOSE k \in keep : \A m \in keep : m <= k
             IN  SubSeq(s, lo, hi)

\* int(value) for a string of decimal digits; -1 stands for ValueError.
RECURSIVE DigitsValue(_)
DigitsValue(s) ==
    IF s = <<>> THEN 0
    ELSE 10 * DigitsValue(SubSeq(s, 1, Len(s) - 1)) + DigitVal(s[Len(s)])

ParseInt(s) ==
    LET t == Strip(s)
    IN  IF t # <<>> /\ \A k \in 1..Len(t) : IsDigit(t[k])
        THEN DigitsValue(t)
        ELSE -1

\* str.split('.'): the parts between the dots, empty parts included.
RECURSIVE SplitDots(_)
SplitDots(s) ==
    LET d == Find(<<".">>, s, 1)
    IN  IF d = 0 THEN <<s>>
        ELSE <<SubSeq(s, 1, d - 1)>> \o SplitDots(SubSeq(s, d + 1, Len(s)))

\* Characters re.escape puts a backslash before (those in use here).
Specials == { ".", " ", "{", "}", "\\" }

\* Faulty alternative: the delimiter goes into the pattern as it is.
Escape_Nothing(t) == t

\* re.escape(t).
RECURSIVE Escape(_)
Escape(t) ==
    IF t = <<>> THEN <<>>
    ELSE (IF Head(t) \in Specials THEN <<"\\", Head(t)>> ELSE <<Head(t)>>)
         \o Escape(Tail(t))

\* The pattern as the regex compiler reads it: a backslash makes the next
\* character literal, a bare dot matches any character (DOTALL), any other
\* character matches itself.
RECURSIVE Atoms(_)
Atoms(p) ==
    IF p = <<>> THEN <<>>
    ELSE IF Head(p) = "\\" /\ Len(p) >= 2
    THEN <<[any |-> FALSE, ch |-> p[2]]>> \o Atoms(SubSeq(p, 3, Len(p)))
    ELSE <<[any |-> Head(p) = ".", ch |-> Head(p)]>> \o Atoms(Tail(p))

\* The first index >= from at which the atoms match in s; 0 when none.
FindAtoms(atoms, s, from) ==
    LET hits_at == { k \in from..(Len(s) - Len(atoms) + 1) :
                        \A j \in 1..Len(atoms) :
                            atoms[j].any \/ s[k + j - 1] = atoms[j].ch }
    IN  IF hits_at = {} THEN 0
        ELSE CHOOSE k \in hits_at : \A m \in hits_at : k <= m

\* re.search(re.escape(start) + '(.*?)' + re.escape(end), text, DOTALL):
\* the leftmost start, then the nearest end after it; group 1 is the text
\* between them.
SearchBetween(text, start, end) ==
    LET sa == Atoms(Escape(start))
        ea == Atoms(Escape(end))
        a  == FindAtoms(sa, text, 1)
        b  == IF a = 0 THEN 0 ELSE FindAtoms(ea, text, a + Len(sa))
    IN  IF a = 0 \/ b = 0 THEN [match |-> FALSE, group |-> <<>>]
        ELSE [match |-> TRUE, group |-> SubSeq(text, a + Len(sa), b - 1)]

\* ------------------------------------------------- responses and rules
Retries == 3         \* HttpClient.retries

\* str(e) of the exception a failed attempt raises: of a
\* RequestException, and of an exception of another class.
ErrText == <<"e">>
OtherText == <<"x">>

EmptyDict == [kind |-> "dict", str |-> <<"{", "}">>, items |-> <<>>]

\* What one attempt of a request meets: a response (raises = "none"), a
\* requests.RequestException / Timeout, or any other exception.
\* echo: the server puts the URL it is asked for into the body.
Answer(status, text, json) ==
    [raises |-> "none", status_code |-> status, text |-> text, json |-> json,
     echo |-> FALSE]

Failure(kind) ==
    [raises |-> kind, status_code |-> 0,
     text |-> IF kind = "other" THEN OtherText ELSE ErrText, json |-> EmptyDict,
     echo |-> FALSE]

Echo == [Answer(200, <<>>, EmptyDict) EXCEPT !.echo = TRUE]

\* A requests.Response (is_dict FALSE: it has .text and no .get), or the
\* error-shaped dict the clients return instead of raising.
ResponseObj(a) ==
    [is_dict |-> FALSE, error |-> FALSE, status_code |-> a.status_code,
     text |-> a.text, error_message |-> <<>>, json |-> a.json]

ErrorDict(msg) ==
    [is_dict |-> TRUE, error |-> TRUE, status_code |-> 0,
     text |-> msg, error_message |-> msg, json |-> EmptyDict]

\* SimpleHttpClient._make_request: one attempt, every exception becomes the
\* error dict.
make_request(attempts) ==
    IF attempts[1].raises = "none"
    THEN [response |-> ResponseObj(attempts[1]), tries |-> 1, raised |-> FALSE]
    ELSE [response |-> ErrorDict(attempts[1].text), tries |-> 1, raised |-> FALSE]

\* HttpClient.get/post/put/delete: up to `retries` attempts; a
\* RequestException on the last one gives the error dict, any other
\* exception leaves the method.
\* Faulty alternative: the error dict on the first RequestException.
http_attempt_GivesUp(attempts, n) ==
    [response |-> IF attempts[n].raises = "none" THEN ResponseObj(attempts[n])
                  ELSE ErrorDict(attempts[n].text),
     tries |-> n, raised |-> attempts[n].raises = "other"]

RECURSIVE http_attempt(_, _)
http_attempt(attempts, n) ==
    IF attempts[n].raises = "none"
    THEN [response |-> ResponseObj(attempts[n]), tries |-> n, raised |-> FALSE]
    ELSE IF attempts[n].raises = "RequestException"
    THEN IF n = Retries
         THEN [response |-> ErrorDict(attempts[n].text), tries |-> n, raised |-> FALSE]
         ELSE http_attempt(attempts, n + 1)
    ELSE [response |-> ErrorDict(attempts[n].text), tries |-> n, raised |-> TRUE]

http_request(attempts) == http_attempt(attempts, 1)

send_request(client, attempts) ==
    IF client = "SimpleHttpClient" THEN make_request(attempts)
    ELSE http_request(attempts)

\* str.upper() / str.lower() on the method and rule-type names in use.
Upper(m) ==
    CASE m = "get" -> "GET" [] m = "post" -> "POST" [] m = "put" -> "PUT"
      [] m = "delete" -> "DELETE" [] m = "patch" -> "PATCH" [] OTHER -> m

Lower(t) ==
    CASE t = "CONTAINS" -> "contains" [] t = "NOT_CONTAINS" -> "not_contains"
      [] t = "STATUS_CODE" -> "status_code" [] t = "JSON_CONTAINS" -> "json_contains"
      [] OTHER -> t

\* Faulty alternative: every method has a branch of the dispatch.
SupportedMethods_Any(client) == {"GET", "POST", "PUT", "DELETE", "PATCH"}

SupportedMethods(client) ==
    IF client = "SimpleHttpClient" THEN {"GET", "POST"}
    ELSE {"GET", "POST", "PUT", "DELETE"}

\* Parsed JSON values: kind, str (what str() gives: the string itself
\* for a string) and, for a dict, its items in order.
JStr(t) == [kind |-> "str", str |-> t, items |-> <<>>]
JInt(digits) == [kind |-> "int", str |-> digits, items |-> <<>>]
JList == [kind |-> "list", str |-> <<"[", "]">>, items |-> <<>>]

\* repr() of a value inside str(dict): a string is quoted.
PyRepr(v) == IF v.kind = "str" THEN <<"'">> \o v.str \o <<"'">> ELSE v.str

\* The dict {key: v}.
JDict(key, v) ==
    [kind |-> "dict",
     str |-> <<"{", "'">> \o key \o <<"'", ":", " ">> \o PyRepr(v) \o <<"}">>,
     items |-> <<[key |-> key, value |-> v]>>]

\* A body on which response.json() raises.
Invalid == [kind |-> "invalid", str |-> <<>>, items |-> <<>>]

\* json_data of _check_conditions: response.json(), or {} when that
\* raises and for the error dict.
json_data(response) ==
    IF response.is_dict \/ response.json.kind = "invalid" THEN EmptyDict
    ELSE response.json

Missing == [kind |-> "missing", str |-> <<>>, items |-> <<>>]

\* `part in current` and `current[part]` on a dict.
HasKey(d, part) == \E j \in 1..Len(d.items) : d.items[j].key = part
Lookup(d, part) == d.items[CHOOSE j \in 1..Len(d.items) : d.items[j].key = part].value

\* Faulty alternative: a walk that never leaves the top of the body.
JsonWalk_IgnoresPath(current, parts, k) == current

\* The walk of _check_conditions along the dotted path: the value reached,
\* or Missing where the code returns False.
RECURSIVE JsonWalk(_, _, _)
JsonWalk(current, parts, k) ==
    IF k > Len(parts) THEN current
    ELSE IF parts[k] = <<>> THEN JsonWalk(current, parts, k + 1)
    ELSE IF current.kind = "dict" /\ HasKey(current, parts[k])
    THEN JsonWalk(Lookup(current, parts[k]), parts, k + 1)
    ELSE Missing

\* Faulty alternative: a status_code rule whose value is no integer is
\* passed over.
\* Faulty alternative: a rule of a type that is not known does not hold.
rule_holds_KnownOnly(response, condition) ==
    LET condition_type  == Lower(condition.type)
        condition_value == condition.value
    IN  CASE condition_type = "contains" ->
               Contains(condition_value, response.text)
          [] condition_type = "not_contains" ->
               ~Contains(condition_value, response.text)
          [] condition_type = "status_code" ->
               /\ ParseInt(condition_value) # -1
               /\ response.status_code = ParseInt(condition_value)
          [] condition_type = "json_contains" ->
               LET reached == JsonWalk(json_data(response), SplitDots(condition.path), 1)
               IN  /\ reached.kind # "missing"
                   /\ Contains(condition_value, reached.str)
          [] OTHER -> FALSE

rule_holds_LenientStatus(response, condition) ==
    LET condition_type  == Lower(condition.type)
        condition_value == condition.value
    IN  CASE condition_type = "contains" ->
               Contains(condition_value, response.text)
          [] condition_type = "not_contains" ->
               ~Contains(condition_value, response.text)
          [] condition_type = "status_code" ->
               \/ ParseInt(condition_value) = -1
               \/ response.status_code = ParseInt(condition_value)
          [] condition_type = "json_contains" ->
               LET reached == JsonWalk(json_data(response), SplitDots(condition.path), 1)
               IN  /\ reached.kind # "missing"
                   /\ Contains(condition_value, reached.str)
          [] OTHER -> TRUE

\* One rule of _check_conditions: FALSE when the loop returns False on it.
rule_holds(response, condition) ==
    LET condition_type  == Lower(condition.type)
        condition_value == condition.value
    IN  CASE condition_type = "contains" ->
               Contains(condition_value, response.text)
          [] condition_type = "not_contains" ->
               ~Contains(condition_value, response.text)
          [] condition_type = "status_code" ->
               /\ ParseInt(condition_value) # -1
               /\ response.status_code = ParseInt(condition_value)
          [] condition_type = "json_contains" ->
               LET reached == JsonWalk(json_data(response), SplitDots(condition.path), 1)
               IN  /\ reached.kind # "missing"
                   /\ Contains(condition_value, reached.str)
          [] OTHER -> TRUE

\* Faulty alternative: one satisfied rule is enough.
check_from_Any(response, conditions, k) ==
    \E j \in k..Len(conditions) : rule_holds(response, conditions[j])

RECURSIVE check_from(_, _, _)
check_from(response, conditions, k) ==
    IF k > Len(conditions) THEN TRUE
    ELSE IF ~rule_holds(response, conditions[k]) THEN FALSE
    ELSE check_from(response, conditions, k + 1)

check_conditions(response, conditions) ==
    IF conditions = <<>> THEN FALSE
    ELSE check_from(response, conditions, 1)

\* ------------------------------------------------ template substitution
\* Request templates are parsed JSON: strings and numbers (JStr, JInt),
\* lists of values, and dicts as their items in order.
TList(values) == [kind |-> "list", str |-> <<>>, items |-> values]
TMap(entries) == [kind |-> "dict", str |-> <<>>, items |-> entries]

LowerLetters ==
    <<"a", "b", "c", "d", "e", "f", "g", "h", "i", "j", "k", "l", "m",
      "n", "o", "p", "q", "r", "s", "t", "u", "v", "w", "x", "y", "z">>
UpperLetters ==
    <<"A", "B", "C", "D", "E", "F", "G", "H", "I", "J", "K", "L", "M",
      "N", "O", "P", "Q", "R", "S", "T", "U", "V", "W", "X", "Y", "Z">>

UpperChar(c) ==
    IF \E i \in 1..Len(LowerLetters) : LowerLetters[i] = c
    THEN UpperLetters[CHOOSE i \in 1..Len(LowerLetters) : LowerLetters[i] = c]
    ELSE c

LowerChar(c) ==
    IF \E i \in 1..Len(UpperLetters) : UpperLetters[i] = c
    THEN LowerLetters[CHOOSE i \in 1..Len(UpperLetters) : UpperLetters[i] = c]
    ELSE c

\* name.upper() and name.lower().
StrUpper(t) == [k \in 1..Len(t) |-> UpperChar(t[k])]
StrLower(t) == [k \in 1..Len(t) |-> LowerChar(t[k])]

\* '{USERNAME}', '{PASSWORD}' and f'{{{name}}}'.
UsernameMarker == <<"{", "U", "S", "E", "R", "N", "A", "M", "E", "}">>
PasswordMarker == <<"{", "P", "A", "S", "S", "W", "O", "R", "D", "}">>
Marker(name) == <<"{">> \o name \o <<"}">>

\* Faulty alternative: only the first occurrence is replaced.
Replace_FirstOnly(t, old, new) ==
    LET k == Find(old, t, 1)
    IN  IF k = 0 THEN t
        ELSE SubSeq(t, 1, k - 1) \o new \o SubSeq(t, k + Len(old), Len(t))

\* t.replace(old, new) for a non-empty old: the occurrences of old are
\* taken from the left without overlap.
RECURSIVE Replace(_, _, _)
Replace(t, old, new) ==
    LET k == Find(old, t, 1)
    IN  IF k = 0 THEN t
        ELSE SubSeq(t, 1, k - 1) \o new
             \o Replace(SubSeq(t, k + Len(old), Len(t)), old, new)

\* The loop of _replace_variables over captured_data.items() from entry k.
RECURSIVE replace_captured(_, _, _)
replace_captured(t, captured_data, k) ==
    IF k > Len(captured_data) THEN t
    ELSE LET name  == captured_data[k].name
             value == captured_data[k].value
             r1 == Replace(t, Marker(StrUpper(name)), value)
             r2 == Replace(r1, Marker(StrLower(name)), value)
             r3 == Replace(r2, Marker(name), value)
         IN  replace_captured(r3, captured_data, k + 1)

\* _replace_variables on a string.
replace_text(t, username, password, captured_data) ==
    replace_captured(Replace(Replace(t, UsernameMarker, username),
                             PasswordMarker, password),
                     captured_data, 1)

\* _replace_variables: anything that is no str comes back as it is.
replace_variables(text, username, password, captured_data) ==
    IF text.kind # "str" THEN text
    ELSE JStr(replace_text(text.str, username, password, captured_data))

\* Faulty alternative: a new key goes to the front of the dict.
MapSet_Prepends(entries, key, value) ==
    IF \E k \in 1..Len(entries) : entries[k].key = key
    THEN [k \in 1..Len(entries) |->
            IF entries[k].key = key THEN [key |-> key, value |-> value] ELSE entries[k]]
    ELSE <<[key |-> key, value |-> value]>> \o entries

\* result[new_key] = new_value on the dict under construction.
MapSet(entries, key, value) ==
    IF \E k \in 1..Len(entries) : entries[k].key = key
    THEN [k \in 1..Len(entries) |->
            IF entries[k].key = key THEN [key |-> key, value |-> value] ELSE entries[k]]
    ELSE Append(entries, [key |-> key, value |-> value])

\* _prepare_request_data: a dict is rebuilt entry by entry (prepare_entries);
\* anything else is returned as it is.
RECURSIVE prepare_request_data(_, _, _, _)
RECURSIVE prepare_entries(_, _, _, _, _, _)
prepare_request_data(req_data, username, password, captured_data) ==
    IF req_data.kind = "dict"
    THEN TMap(prepare_entries(req_data.items, 1, <<>>, username, password, captured_data))
    ELSE req_data

prepare_entries(entries, k, acc, username, password, captured_data) ==
    IF k > Len(entries) THEN acc
    ELSE
      LET value   == entries[k].value
          new_key == replace_text(entries[k].key, username, password, captured_data)
          new_value ==
            CASE value.kind = "str" ->
                   replace_variables(value, username, password, captured_data)
              [] value.kind = "dict" ->
                   prepare_request_data(value, username, password, captured_data)
              [] value.kind = "list" ->
                   TList([i \in 1..Len(value.items) |->
                     LET item == value.items[i]
                     IN  CASE item.kind = "str" ->
                                replace_variables(item, username, password, captured_data)
                           [] item.kind = "dict" ->
                                prepare_request_data(item, username, password, captured_data)
                           [] OTHER -> item])
              [] OTHER -> value
      IN  prepare_entries(entries, k + 1, MapSet(acc, new_key, new_value),
                          username, password, captured_data)

\* What check_with_config does to the `data` of a request: a dict is
\* prepared, a str has its variables replaced, anything else is sent as it
\* is.  (`json` is prepared when it is a dict and sent as it is otherwise.)
prepare_data(data, username, password, captured_data) ==
    IF data.kind = "dict"
    THEN prepare_request_data(data, username, password, captured_data)
    ELSE IF data.kind = "str"
    THEN replace_variables(data, username, password, captured_data)
    ELSE data

\* ------------------------------------------------- check_with_config
\* d[name] = value on a dict, which keeps its keys in insertion order.
DictSet(d, name, value) ==
    IF \E k \in 1..Len(d) : d[k].name = name
    THEN [k \in 1..Len(d) |->
            IF d[k].name = name THEN [name |-> name, value |-> value] ELSE d[k]]
    ELSE Append(d, [name |-> name, value |-> value])

\* HttpClient.extract_substring: None (found FALSE) or the trimmed inner text.
extract_substring(text, start, end) ==
    IF text = <<>> \/ start = <<>> \/ end = <<>>
    THEN [found |-> FALSE, value |-> <<>>]
    ELSE LET m == SearchBetween(text, start, end)
         IN  IF m.match THEN [found |-> TRUE, value |-> Strip(m.group)]
             ELSE [found |-> FALSE, value |-> <<>>]

\* A capture rule of the workflow.  start_type is the JSON type of its
\* `start`: a delimiter that is a number is truthy and no str.
CaptureRule(name, start, end) ==
    [name |-> name, start |-> start, end |-> end, start_type |-> "str"]

\* The value one capture rule stores, if it stores one.  SimpleHttpClient
\* stores every match; HttpClient drops an empty captured value.
\* re.escape raises TypeError on a delimiter that is no str: in
\* SimpleHttpClient the exception reaches the `except` of the capture loop
\* (raised), in HttpClient extract_substring turns it into None.
capture_one(client, text, rule) ==
    IF rule.start_type # "str"
    THEN [found |-> FALSE, value |-> <<>>, raised |-> client = "SimpleHttpClient"]
    ELSE IF client = "SimpleHttpClient"
    THEN LET m == SearchBetween(text, rule.start, rule.end)
         IN  [found |-> m.match, value |-> Strip(m.group), raised |-> FALSE]
    ELSE LET v == extract_substring(text, rule.start, rule.end)
         IN  [found |-> v.found /\ v.value # <<>>, value |-> v.value,
              raised |-> FALSE]

\* Faulty alternative: an exception in a capture ends the run in error.
OnCaptureError_Aborts(st) ==
    [st EXCEPT !.result.error = TRUE, !.result.error_message = OtherText]

\* `except Exception as e` inside the capture loop: the error is printed
\* and the loop goes on.
OnCaptureError(st) == st

\* The loop over config['capture'] on the final response.
RECURSIVE capture_from(_, _, _, _, _)
capture_from(client, text, rules, k, st) ==
    IF k > Len(rules) THEN st
    ELSE LET rule == rules[k]
         IN  IF rule.name # <<>> /\ rule.start # <<>> /\ rule.end # <<>>
             THEN LET c  == capture_one(client, text, rule)
                      ev == Append(st.evaluated, "capture")
                  IN  IF c.found
                      THEN capture_from(client, text, rules, k + 1,
                             [st EXCEPT !.evaluated = ev,
                                        !.captured_data = DictSet(@, rule.name, c.value),
                                        !.result.captured_data = DictSet(@, rule.name, c.value)])
                      ELSE capture_from(client, text, rules, k + 1,
                             IF c.raised
                             THEN OnCaptureError([st EXCEPT !.evaluated = ev])
                             ELSE [st EXCEPT !.evaluated = ev])
             ELSE capture_from(client, text, rules, k + 1, st)

\* The success and failure rule sets on the final response.
final_conditions(response, config, st) ==
    LET s1 == IF config.success_conditions # <<>>
              THEN [st EXCEPT !.result.success =
                                 check_conditions(response, config.success_conditions),
                              !.evaluated = Append(@, "success")]
              ELSE st
    IN  IF config.failure_conditions # <<>>
        THEN [s1 EXCEPT !.result.failure =
                           check_conditions(response, config.failure_conditions),
                        !.evaluated = Append(@, "failure")]
        ELSE s1

VARIABLE hits      \* self.hits: each hit's line and captured data

\* Faulty alternative: the new result starts from the captured data of
\* the last hit.
InitialResult_Stale ==
    [success |-> FALSE, failure |-> FALSE, error |-> FALSE,
     error_message |-> <<>>,
     captured_data |-> IF hits = <<>> THEN <<>> ELSE hits[Len(hits)].captured]

\* The result dict check_with_config starts from.
InitialResult ==
    [success |-> FALSE, failure |-> FALSE, error |-> FALSE,
     error_message |-> <<>>, captured_data |-> <<>>]

\* One entry of config['requests'], with the defaults of req_config.get
\* for what the entry leaves out ('verify' is not modelled).
JNone == [kind |-> "none", str |-> <<>>, items |-> <<>>]

Request(method) ==
    [method |-> method, url |-> JStr(<<>>), headers |-> TMap(<<>>),
     data |-> TMap(<<>>), json |-> JNone]

\* url, headers, data and json_data after "Prepare request data".
prepare_step(req_config, username, password, captured_data) ==
    [url     |-> replace_variables(req_config.url, username, password, captured_data),
     headers |-> prepare_request_data(req_config.headers, username, password,
                                      captured_data),
     data    |-> prepare_data(req_config.data, username, password, captured_data),
     json    |-> IF req_config.json.kind = "dict"
                 THEN prepare_request_data(req_config.json, username, password,
                                           captured_data)
                 ELSE req_config.json]

\* Faulty alternative: the prepared values are written into the entry.
StoreLocal_IntoConfig(req_config, prepared) ==
    [req_config EXCEPT !.url = prepared.url, !.headers = prepared.headers,
                       !.data = prepared.data, !.json = prepared.json]

\* The prepared values are bound to the locals url, headers, data and
\* json_data: the entry of the config is what it was.
StoreLocal(req_config, prepared) == req_config

\* What goes to the server: get and delete pass the url and the headers,
\* post and put the data and the json as well.
NotSent == [kind |-> "unsent", str |-> <<>>, items |-> <<>>]

Sent(method, prepared) ==
    IF method \in {"GET", "DELETE"}
    THEN [prepared EXCEPT !.data = NotSent, !.json = NotSent]
    ELSE prepared

\* What the attempts of a step meet once the request is known: an echoing
\* answer carries the requested URL between "a" and "b".
WithEcho(attempts, prepared) ==
    [n \in DOMAIN attempts |->
        IF attempts[n].echo
        THEN [attempts[n] EXCEPT !.text = <<"a">> \o prepared.url.str \o <<"b">>]
        ELSE attempts[n]]

\* Faulty alternative: a test that never recognises the error dict.
IsErrorResponse_Never(response) == response.is_dict /\ ~response.is_dict

\* `hasattr(response, 'get') and response.get('error', False)`.
IsErrorResponse(response) == response.is_dict /\ response.error

\* The message check_with_config reports for an error-shaped response:
\* SimpleHttpClient reads its 'text', HttpClient its 'error_message'.
error_text(client, response) ==
    IF client = "SimpleHttpClient" THEN response.text ELSE response.error_message

\* Faulty alternative: every step is treated as the final one.
IsFinalStep_Every(i, n) == i <= n

\* Faulty alternative: the captures are taken from the first step.
IsFinalStep_First(i, n) == i = 1

\* `i == len(config.get('requests', [])) - 1`, with steps counted from 1.
IsFinalStep(i, n) == i = n

\* The for loop of check_with_config from step st.i on.  st carries the
\* config object, the result under construction, the captured data, and
\* two logs of what was done: `sent` (the requests issued, in order, each
\* with the captured data its templates were filled from) and `evaluated`
\* (capture rules and rule sets applied).  srv[i] is what the attempts of
\* step i meet.
RECURSIVE run_requests(_, _, _, _, _)

\* The state with the request of step st.i, as issued, added to `sent`.
log_sent(st, method, prepared, r) ==
    [st EXCEPT !.sent = Append(@, [step |-> st.i, method |-> method,
                                   tries |-> r.tries,
                                   raised |-> r.raised,
                                   failed |-> r.response.error,
                                   request |-> Sent(method, prepared),
                                   captured |-> st.captured_data])]

\* The rule sets of the final step applied to the state after its captures.
conclude(response, st) == final_conditions(response, st.config, st)

\* The captures and the rule sets of the final step.
final_step(client, response, st) ==
    conclude(response, capture_from(client, response.text, st.config.capture, 1, st))

next_step(st) == [st EXCEPT !.i = @ + 1]

\* What follows the request of step st.i: r is what the client got.
after_request(client, username, password, srv, st, r) ==
    IF r.raised
    THEN [st EXCEPT !.result.error = TRUE,
                    !.result.error_message = r.response.text]
    ELSE IF IsErrorResponse(r.response)
    THEN [st EXCEPT !.result.error = TRUE,
                    !.result.error_message = error_text(client, r.response)]
    ELSE IF IsFinalStep(st.i, Len(st.config.requests))
    THEN run_requests(client, username, password, srv,
                      next_step(final_step(client, r.response, st)))
    ELSE run_requests(client, username, password, srv, next_step(st))

\* The request of step st.i is made and logged.
request_made(client, username, password, srv, st, method, prepared, r) ==
    after_request(client, username, password, srv,
                  log_sent(st, method, prepared, r), r)

\* Step st.i with its method and its prepared url, headers, data and json.
make_step(client, username, password, srv, st, method, prepared) ==
    IF method \notin SupportedMethods(client)
    THEN [st EXCEPT !.result.error = TRUE,
                    !.result.error_message =
                        <<"Unsupported HTTP method: ", method>>]
    ELSE request_made(client, username, password, srv, st, method, prepared,
                      send_request(client, WithEcho(srv[st.i], prepared)))

\* Step st.i once its templates are filled in.
prepared_step(client, username, password, srv, st, req_config, prepared) ==
    make_step(client, username, password, srv,
              [st EXCEPT !.config.requests[st.i] = StoreLocal(req_config, prepared)],
              Upper(req_config.method), prepared)

run_requests(client, username, password, srv, st) ==
    IF st.i > Len(st.config.requests) THEN st
    ELSE prepared_step(client, username, password, srv, st,
                       st.config.requests[st.i],
                       prepare_step(st.config.requests[st.i], username, password,
                                    st.captured_data))

check_with_config(client, username, password, config, srv) ==
    run_requests(client, username, password, srv,
                 [i |-> 1, config |-> config, result |-> InitialResult,
                  captured_data |-> <<>>, sent |-> <<>>, evaluated |-> <<>>])

\* requests.Session keeps the cookies its responses set and sends them
\* with every later request.  The site at SessionUrl sets one cookie with
\* each answer; no other site sets any.
SessionUrl == <<"s">>

SetCookie(e) ==
    IF e.request.url.str = SessionUrl /\ ~e.raised /\ ~e.failed THEN {"sid"} ELSE {}

\* The cookies that the answers of one run add to the client's session.
Received(run) == UNION { SetCookie(run.sent[k]) : k \in 1..Len(run.sent) }

\* ConsoleChecker.check_account: the defaults updated with the result of
\* the client's check_with_config, whose run is `run` (check_with_config
\* catches its own exceptions).
check_account(run) == run.result

\* The http client each variant of the command-line checker constructs.
ClientOf(v) == IF v = "cli_checker" THEN "SimpleHttpClient" ELSE "HttpClient"

\* ------------------------------------------------- process_result
\* Faulty alternative: the failure flag tested before the success flag.
Bucket_FailureFirst(result) ==
    IF result.error THEN "error"
    ELSE IF result.failure THEN "dead"
    ELSE IF result.success THEN "hit"
    ELSE "free"

\* The branch of process_result a result takes.
\* Faulty alternative: a result with no flag set is a dead pair.
Bucket_DeadByDefault(result) ==
    IF result.error THEN "error"
    ELSE IF result.success THEN "hit"
    ELSE "dead"

Bucket(result) ==
    IF result.error THEN "error"
    ELSE IF result.success THEN "hit"
    ELSE IF result.failure THEN "dead"
    ELSE "free"

Buckets == {"error", "hit", "dead", "free"}

\* Faulty alternative: an error result counted as a hit.
CounterOf_ErrorAsHit(bucket) ==
    CASE bucket = "error" -> "hits"
      [] bucket = "hit"   -> "hits"
      [] bucket = "dead"  -> "deads"
      [] OTHER            -> "none"

\* The statistics counter that branch increments ("none": the free list).
CounterOf(bucket) ==
    CASE bucket = "error" -> "deads"
      [] bucket = "hit"   -> "hits"
      [] bucket = "dead"  -> "deads"
      [] OTHER            -> "none"

\* ---------------------------------------------------------- the rate
\* stats['cpm'] as num / den in lowest terms, den a power of five.  In
\* cli_checker the rate stays an int (den = 1); in cli_mode the smoothing
\* makes it a float, kept here as the exact fraction the float rounds.
Rate(n) == [num |-> n, den |-> 1]

\* int(x) for x = n / d: the fraction is cut off towards zero.
TruncDiv(n, d) == IF n >= 0 THEN n \div d ELSE -((-n) \div d)

\* Faulty alternative: no smoothing, the rate is the last new_cpm.
Smoothed_Instant(v, cpm, new_cpm) == Rate(new_cpm)

\* The new stats['cpm'] from the old one and new_cpm = checks_diff * 60:
\* new_cpm itself while the rate is 0, else cpm * 0.6 + new_cpm * 0.4,
\* which cli_checker wraps in int().
Smoothed(v, cpm, new_cpm) ==
    IF cpm.num = 0
    THEN Rate(new_cpm)
    ELSE IF v = "cli_checker"
    THEN Rate(TruncDiv(3 * cpm.num + 2 * new_cpm, 5))
    ELSE LET n == 3 * cpm.num + 2 * new_cpm * cpm.den
         IN  IF n % 5 = 0
             THEN [num |-> n \div 5, den |-> cpm.den]
             ELSE [num |-> n, den |-> 5 * cpm.den]

\* The stats dict check_combo starts a run with.
FreshStats(line_count) ==
    [checked |-> 0, hits |-> 0, tocheck |-> line_count, deads |-> 0,
     cpm |-> Rate(0), last_checked |-> 0]

\* ------------------------------------------------------- the scheduler
Variants == {"cli_checker", "cli_mode"}
Workers  == 1..MaxThreads

VARIABLES
    variant,       \* which command-line checker runs
    combo_file,    \* the lines of the combo file
    threads,       \* the `threads` argument of check_combo
    config_file,   \* what the configs directory holds under config_name
    config,        \* the loaded workflow
    stats,         \* self.stats: checked, hits, tocheck, deads, cpm, last_checked
    free,          \* self.free
    combo_queue,   \* the queue.Queue of line numbers of combo_file
    is_checking,   \* self.is_checking
    pause_event,   \* self.pause_event
    started,       \* len(self.worker_threads)
    mainpc,        \* where check_combo is
    wpc,           \* where each worker_thread is
    combo_line,    \* each worker's dequeued line (0: none)
    result,        \* each worker's result of check_account
    loaded,        \* the counter value a worker has read for its += 1
    handed,        \* per line: how often it was passed to check_account
    seen,          \* per branch of process_result: how many results took it
    counted,       \* how many times a worker has stored `checked`
    checks_diff,   \* update_stats' local checks_diff
    samples,       \* how many times update_stats has recomputed the rate
    seconds,       \* how many times the clock lets it do so during the run
    ck,            \* one run of the account checker on its own
    fn,            \* one call of a helper of the client on its own
    proxy_file,    \* the lines of the proxy file (none: no file given)
    proxy_type,    \* the `proxy_type` argument of check_combo
    proxies,       \* check_combo's list of proxies
    proxy_index,   \* each worker's proxy_index
    proxy,         \* each worker's proxy, which its http client is set to
    taken,         \* how many proxies each worker has taken from the pool
    passed,        \* the (line, username, password) given to check_account
    late,          \* how many pairs each worker dequeued with the event set
    cookies,       \* each worker's http client's session cookies
    first,         \* how many threads an earlier call of check_combo started
    prev_queue     \* the queue.Queue that the earlier call created

vars == <<variant, combo_file, threads, config_file, config, stats, hits, free, combo_queue,
          is_checking, pause_event, started, mainpc, wpc, combo_line, result,
          loaded, handed, seen, counted, checks_diff, samples, seconds, ck, fn,
          proxy_file, proxy_type, proxies, proxy_index, proxy, taken, passed,
          late, cookies, first, prev_queue>>

A1 == <<"a">>
B1 == <<"b">>

\* A document with none of the keys: every `.get` gives its default.
NoConfig ==
    [requests |-> <<>>, capture |-> <<>>, success_conditions |-> <<>>,
     failure_conditions |-> <<>>]

\* The workflow of the scheduler runs: two steps, success on "a" in the
\* final body, failure on "b".
SchedConfig ==
    [requests |-> <<Request("GET"), Request("POST")>>,
     capture  |-> <<>>,
     success_conditions |-> <<[type |-> "contains", value |-> A1, path |-> <<>>]>>,
     failure_conditions |-> <<[type |-> "contains", value |-> B1, path |-> <<>>]>>]

Always(a) == [n \in 1..Retries |-> a]

\* What the server does to one pair during a scheduler run.
SchedServers ==
    { <<Always(Answer(200, <<>>, EmptyDict)), Always(Answer(200, t, EmptyDict))>> :
        t \in {<<>>, B1, A1 \o B1} }
    \cup { <<Always(Failure(kind)), Always(Answer(200, A1, EmptyDict))>> :
              kind \in {"RequestException", "other"} }
    \cup { <<Always(Answer(200, <<>>, EmptyDict)), Always(Echo)>> }

HasColon(line) == \E k \in 1..Len(line) : line[k] = ":"

LineTexts == { <<"u", ":", "p">>, <<"u">> }

ComboFiles == UNION { [1..n -> LineTexts] : n \in 0..MaxLines }

\* The lines check_combo puts on the queue: stripped, non-empty, with a colon.
RECURSIVE QueuedFrom(_, _)
QueuedFrom(file, k) ==
    IF k > Len(file) THEN <<>>
    ELSE IF Strip(file[k]) # <<>> /\ HasColon(Strip(file[k]))
    THEN <<k>> \o QueuedFrom(file, k + 1)
    ELSE QueuedFrom(file, k + 1)

Queued(file) == QueuedFrom(file, 1)

\* The string put on the queue for line k of the file: `line.strip()`.
LineOf(k) == Strip(combo_file[k])

NoResult == InitialResult

\* `proxy = None`, and the dict a worker builds from proxy_str: both of its
\* entries carry the same scheme and address.
NoProxy == [scheme |-> "none", address |-> <<>>]

ProxyTypes == {"None", "HTTP", "SOCKS4", "SOCKS5"}

ProxyDict(type, proxy_str, previous) ==
    CASE type = "HTTP"   -> [scheme |-> "http", address |-> proxy_str]
      [] type = "SOCKS4" -> [scheme |-> "socks4", address |-> proxy_str]
      [] type = "SOCKS5" -> [scheme |-> "socks5", address |-> proxy_str]
      [] OTHER           -> previous

\* The pool check_combo reads: with a file and a type other than 'None',
\* the stripped non-empty lines of the file; otherwise the empty list.
RECURSIVE NonBlank(_)
NonBlank(lines) ==
    IF lines = <<>> THEN <<>>
    ELSE IF Strip(Head(lines)) # <<>>
    THEN <<Strip(Head(lines))>> \o NonBlank(Tail(lines))
    ELSE NonBlank(Tail(lines))

ReadProxies(file, type) == IF type # "None" THEN NonBlank(file) ELSE <<>>

\* Faulty alternative: a cursor that stays on the element it has reached.
NextIndex_Stays(pool, index) == IF index >= Len(pool) THEN Len(pool) - 1 ELSE index

\* `if proxy_index >= len(proxies): proxy_index = 0`: the (0-based) element
\* this dequeue uses; proxy_index is then one more.
NextIndex(pool, index) == IF index >= Len(pool) THEN 0 ELSE index

\* Faulty alternative: a count that misses the last line.
LineCount_MissesLast(file) == IF Len(file) = 0 THEN 0 ELSE Len(file) - 1

\* The number of lines check_combo counts into stats['tocheck'].
LineCount(file) == Len(file)

\* Faulty alternative: a get that leaves the head on the queue.
AfterGet_KeepsHead(q) == q

\* The queue after queue.get has taken its head.
AfterGet(q) == Tail(q)

\* Faulty alternative: the event is honoured as soon as check_account has returned.
AfterCheck_HonoursEvent == IF pause_event THEN "done" ELSE "process"

\* Where a worker goes when check_account has returned.
AfterCheck == "process"

\* `ck` and `fn` while the scheduler runs.
CkOff == [phase |-> "off"]
FnOff == [phase |-> "off", success |-> FALSE, failure |-> FALSE]

\* The checker object after __init__, before check_combo is called.
Constructed ==
    /\ stats = FreshStats(0)
    /\ hits = <<>>
    /\ free = <<>>
    /\ combo_queue = <<>>
    /\ is_checking = FALSE
    /\ pause_event = FALSE
    /\ started = 0
    /\ mainpc = "idle"
    /\ wpc = [w \in Workers |-> "unstarted"]
    /\ combo_line = [w \in Workers |-> 0]
    /\ result = [w \in Workers |-> NoResult]
    /\ loaded = [w \in Workers |-> 0]
    /\ handed = [k \in 1..Len(combo_file) |-> 0]
    /\ seen = [b \in Buckets |-> 0]
    /\ counted = 0
    /\ checks_diff = 0
    /\ samples = 0
    /\ ck = CkOff
    /\ fn = FnOff
    /\ proxies = <<>>
    /\ proxy_index = [w \in Workers |-> 0]
    /\ proxy = [w \in Workers |-> NoProxy]
    /\ taken = [w \in Workers |-> 0]
    /\ passed = {}
    /\ late = [w \in Workers |-> 0]
    /\ cookies = [w \in Workers |-> {}]
    /\ first = 0
    /\ prev_queue = <<>>

\* check_combo called with its defaults proxy_file=None, proxy_type='None'.
NoProxyFile ==
    /\ proxy_file = <<>>
    /\ proxy_type = "None"

Init ==
    /\ variant \in Variants
    /\ config_file = "workflow"
    /\ combo_file \in ComboFiles
    /\ threads \in 1..MaxThreads
    /\ config = SchedConfig
    /\ NoProxyFile
    /\ seconds = MaxSamples
    /\ Constructed

args   == <<variant, config_file, combo_file, threads, seconds, ck, fn, proxy_file,
            proxy_type>>
params == <<args, config>>
earlier == <<first, prev_queue>>
inputs == <<params, proxies, earlier>>
wproxy == <<proxy_index, proxy>>
wclient == <<wproxy, cookies>>
wlocal == <<wpc, combo_line, result, loaded, wclient>>
ghost  == <<handed, seen, counted, taken, passed, late>>
mlocal == <<checks_diff, samples>>
shared == <<stats, hits, free, combo_queue>>

\* What config_name may stand for: no file, a file that is not JSON, the
\* JSON documents {} and [1], and a workflow (the value of `config`).
ConfigFiles == {"missing", "unparseable", "empty", "list", "workflow"}

\* load_config returns None when the file is missing or json.load
\* raises, and the parsed document otherwise.
Loads(file) == file \notin {"missing", "unparseable"}

\* `if not config` is passed: the file was loaded and the document is
\* not an empty one.
Truthy(file) == Loads(file) /\ file # "empty"

\* check_combo from the reset of the statistics to the clearing of the
\* event: new counters and result lists, the proxies, a new queue with the
\* usable lines, the flag set, the event cleared, no threads yet.
BeginRun ==
    /\ stats' = FreshStats(LineCount(combo_file))
    /\ hits' = <<>>
    /\ free' = <<>>
    /\ proxies' = ReadProxies(proxy_file, proxy_type)
    /\ combo_queue' = Queued(combo_file)
    /\ is_checking' = TRUE
    /\ pause_event' = FALSE
    /\ started' = 0
    /\ mainpc' = "spawn"

\* check_combo up to the start of the workers.  When `if not config`
\* holds it logs "not found" and returns False.  Otherwise tocheck is the
\* number of lines of the file and the queue gets the usable lines.
StartCheck ==
    /\ mainpc = "idle"
    /\ IF ~Truthy(config_file)
       THEN /\ mainpc' = "failed"
            /\ UNCHANGED <<shared, proxies, is_checking, pause_event, started>>
       ELSE BeginRun
    /\ UNCHANGED <<params, earlier, wlocal, ghost, mlocal>>

\* One round of the loop that creates and starts the threads.
Spawn ==
    /\ mainpc = "spawn"
    /\ started < threads
    /\ started' = started + 1
    /\ wpc' = [wpc EXCEPT ![first + started + 1] = "top"]
    /\ proxy_index' = [proxy_index EXCEPT ![first + started + 1] = 0]
    /\ proxy' = [proxy EXCEPT ![first + started + 1] = NoProxy]
    /\ cookies' = [cookies EXCEPT ![first + started + 1] = {}]
    /\ mainpc' = IF started + 1 = threads THEN "monitor" ELSE "spawn"
    /\ UNCHANGED <<inputs, shared, is_checking, pause_event, combo_line, result,
                   loaded, ghost, mlocal>>

Alive(w) == wpc[w] \notin {"unstarted", "done"}

\* Faulty alternative: the loop goes on only while the queue has pairs.
AnyAlive_UntilDrained == combo_queue # <<>>

AnyAlive == \E w \in (first + 1)..(first + started) : Alive(w)

\* The while condition of the monitor loop.
MonitorCond ==
    /\ mainpc = "monitor"
    /\ mainpc' = IF is_checking /\ AnyAlive THEN "update" ELSE "final"
    /\ UNCHANGED <<inputs, shared, is_checking, pause_event, started, wlocal, ghost,
                   mlocal>>

\* update_stats up to checks_diff, in the loop ("update") and after it
\* ("final", where the t.join(0.1) calls come first: each returns when its
\* thread has ended or after a tenth of a second, whichever is first).  The
\* rate is recomputed when a second has passed since the last time, which
\* the clock decides; `checked` is read here and again in StatsStore.
StatsDiff ==
    /\ mainpc \in {"update", "final"}
    /\ \E due \in BOOLEAN :
         /\ due => samples < seconds
         /\ IF due
            THEN /\ checks_diff' = stats.checked - stats.last_checked
                 /\ mainpc' = IF mainpc = "update" THEN "store" ELSE "fstore"
            ELSE /\ checks_diff' = checks_diff
                 /\ mainpc' = IF mainpc = "update" THEN "test" ELSE "finish"
    /\ UNCHANGED <<inputs, shared, is_checking, pause_event, started, wlocal, ghost,
                   samples>>

\* The rest of update_stats: last_checked, last_cpm_update and the rate.
StatsStore ==
    /\ mainpc \in {"store", "fstore"}
    /\ stats' = [stats EXCEPT !.last_checked = stats.checked,
                              !.cpm = Smoothed(variant, stats.cpm, checks_diff * 60)]
    /\ samples' = samples + 1
    /\ checks_diff' = 0
    /\ mainpc' = IF mainpc = "store" THEN "test" ELSE "finish"
    /\ UNCHANGED <<inputs, hits, free, combo_queue, is_checking, pause_event, started,
                   wlocal, ghost>>

\* Faulty alternative: all done one check early.
AllDone_OneEarly(s) == s.checked + 1 >= s.tocheck

\* `self.stats['checked'] >= self.stats['tocheck']`.
AllDone(s) == s.checked >= s.tocheck

\* The rest of the body of the monitor loop: display_progress, the
\* all-done test, the sleep.
MonitorBody ==
    /\ mainpc = "test"
    /\ IF AllDone(stats)
       THEN /\ is_checking' = FALSE
            /\ mainpc' = "final"
       ELSE /\ is_checking' = is_checking
            /\ mainpc' = "monitor"
    /\ UNCHANGED <<inputs, shared, pause_event, started, wlocal, ghost, mlocal>>

\* After the final update_stats: the display, "Checking completed.", the
\* export, return True.
Finish ==
    /\ mainpc = "finish"
    /\ mainpc' = "completed"
    /\ UNCHANGED <<inputs, shared, is_checking, pause_event, started, wlocal, ghost,
                   mlocal>>

\* KeyboardInterrupt inside the try block: the handler sets the event,
\* clears is_checking, gives every thread a t.join(0.1) (which returns when
\* the thread has ended or after a tenth of a second, whichever is first),
\* logs "Stopped." and returns False.
Interrupt ==
    /\ mainpc \in {"monitor", "update", "store", "test", "final", "fstore", "finish"}
    /\ pause_event' = TRUE
    /\ is_checking' = FALSE
    /\ mainpc' = "stopped"
    /\ checks_diff' = 0
    /\ UNCHANGED <<inputs, shared, started, wlocal, ghost, samples>>

main_ctl == <<is_checking, pause_event, started, mainpc, mlocal>>

\* Faulty alternative: the event ends the loop only once the queue is empty.
AtLoopTop_DrainsFirst(event, q) == IF event /\ q = <<>> THEN "done" ELSE "get"

\* Where the loop condition sends a worker.
AtLoopTop(event, q) == IF event THEN "done" ELSE "get"

\* The combo_queue argument of a worker: the queue of the call of
\* check_combo that started it.
QueueOf(w) == IF w <= first THEN prev_queue ELSE combo_queue

\* The write of `self.stats[key] += 1`.  The dict is looked up once, before
\* the read; a worker that read a dict which check_combo has since replaced
\* (value < 0) writes into that dict, which nothing reads any more.
StoreInto(s, key, value) == IF value < 0 THEN s ELSE [s EXCEPT ![key] = value + 1]

\* `while not pause_event.is_set()`.
LoopTop(w) ==
    /\ wpc[w] = "top"
    /\ wpc' = [wpc EXCEPT ![w] = AtLoopTop(pause_event, QueueOf(w))]
    /\ UNCHANGED <<inputs, shared, main_ctl, combo_line, result, loaded, wclient,
                   ghost>>

\* Faulty alternative: an exception in the iteration ends the thread.
OnWorkerError_Dies == "done"

\* The outer `except Exception` of worker_thread: "Worker error" is
\* printed and `continue` goes back to the loop condition.
OnWorkerError == "top"

\* Where a worker goes when queue.get(block=False) raises Empty.  In
\* cli_checker `except Exception: break`.  In cli_mode `except queue.Empty`
\* names the Queue argument, which has no attribute Empty: the
\* AttributeError reaches the outer `except Exception: ... continue`.
OnEmpty(v) == IF v = "cli_checker" THEN "done" ELSE OnWorkerError

\* queue.get(block=False), the worker's next proxy (set on its http
\* client) and the test for a colon.
Get(w) ==
    /\ wpc[w] = "get"
    /\ IF QueueOf(w) = <<>>
       THEN /\ wpc' = [wpc EXCEPT ![w] = OnEmpty(variant)]
            /\ UNCHANGED <<combo_queue, prev_queue, combo_line, wproxy, taken, late>>
       ELSE /\ IF w <= first
               THEN prev_queue' = AfterGet(prev_queue) /\ combo_queue' = combo_queue
               ELSE combo_queue' = AfterGet(combo_queue) /\ prev_queue' = prev_queue
            /\ combo_line' = [combo_line EXCEPT ![w] = Head(QueueOf(w))]
            /\ late' = [late EXCEPT ![w] = IF pause_event THEN @ + 1 ELSE @]
            /\ IF proxies # <<>> /\ proxy_type # "None"
               THEN LET i == NextIndex(proxies, proxy_index[w])
                    IN  /\ proxy_index' = [proxy_index EXCEPT ![w] = i + 1]
                        /\ proxy' = [proxy EXCEPT ![w] =
                                        ProxyDict(proxy_type, proxies[i + 1], @)]
                        /\ taken' = [taken EXCEPT ![w] = @ + 1]
               ELSE UNCHANGED <<wproxy, taken>>
            /\ wpc' = [wpc EXCEPT ![w] =
                         IF HasColon(LineOf(Head(QueueOf(w)))) THEN "check" ELSE "top"]
    /\ UNCHANGED <<params, proxies, first, cookies, stats, hits, free, main_ctl, result, loaded, handed, seen, passed,
                   counted>>

\* combo_line.split(':', 1) on a line with a colon.
SplitPair(line) ==
    LET c == Find(<<":">>, line, 1)
    IN  [username |-> SubSeq(line, 1, c - 1),
         password |-> SubSeq(line, c + 1, Len(line))]

\* The result of check_account on a document that is not a dict:
\* `config.get` raises AttributeError inside check_with_config's try.
NotAWorkflow ==
    [InitialResult EXCEPT !.error = TRUE, !.error_message = OtherText]

\* check_account returns: the request(s) of this pair have run.
\* What the call of the client leaves behind: the result in the worker's
\* local, the config object as the run left it, and the cookies of the
\* run's answers in the session of the worker's client.
Checked(w, run) ==
    /\ result' = [result EXCEPT ![w] = check_account(run)]
    /\ config' = run.config
    /\ cookies' = [cookies EXCEPT ![w] = @ \cup Received(run)]

CheckDone(w) ==
    /\ wpc[w] = "check"
    /\ LET pair == SplitPair(LineOf(combo_line[w]))
       IN  /\ passed' = passed \cup {[line |-> combo_line[w],
                                       username |-> pair.username,
                                       password |-> pair.password]}
           /\ IF config_file = "workflow"
              THEN \E srv \in SchedServers :
                     Checked(w, check_with_config(ClientOf(variant), pair.username,
                                                  pair.password, config, srv))
              ELSE /\ result' = [result EXCEPT ![w] = NotAWorkflow]
                   /\ config' = config
                   /\ cookies' = cookies
    /\ handed' = [handed EXCEPT ![combo_line[w]] = @ + 1]
    /\ wpc' = [wpc EXCEPT ![w] = AfterCheck]
    /\ UNCHANGED <<args, proxies, earlier, shared, main_ctl, combo_line, loaded, wproxy, seen,
                   counted, taken, late>>

\* process_result up to the read of the counter it increments, or the
\* append to the free list.  `with threading.Lock():` locks a lock made on
\* the spot, which no other thread ever holds, so `+= 1` is a read here and
\* a write in CounterStore.
ProcessRead(w) ==
    /\ wpc[w] = "process"
    /\ LET b == Bucket(result[w])
       IN  /\ seen' = [seen EXCEPT ![b] = @ + 1]
           /\ IF CounterOf(b) = "none"
              THEN /\ free' = Append(free, LineOf(combo_line[w]))
                   /\ wpc' = [wpc EXCEPT ![w] = "inc"]
                   /\ combo_line' = [combo_line EXCEPT ![w] = 0]
                   /\ result' = [result EXCEPT ![w] = NoResult]
                   /\ UNCHANGED loaded
              ELSE /\ loaded' = [loaded EXCEPT ![w] = stats[CounterOf(b)]]
                   /\ wpc' = [wpc EXCEPT ![w] = "store"]
                   /\ UNCHANGED <<free, combo_line, result>>
    /\ UNCHANGED <<inputs, stats, hits, combo_queue, main_ctl, wclient, handed,
                   counted, taken, passed, late>>

\* The write of that counter.  The worker's locals are cleared where
\* process_result reads them last: they are dead until the next dequeue.
CounterStore(w) ==
    /\ wpc[w] = "store"
    /\ LET b == Bucket(result[w])
       IN  /\ stats' = StoreInto(stats, CounterOf(b), loaded[w])
           /\ IF b = "hit"
              THEN /\ wpc' = [wpc EXCEPT ![w] = "append"]
                   /\ UNCHANGED <<combo_line, result>>
              ELSE /\ wpc' = [wpc EXCEPT ![w] = "inc"]
                   /\ combo_line' = [combo_line EXCEPT ![w] = 0]
                   /\ result' = [result EXCEPT ![w] = NoResult]
    /\ loaded' = [loaded EXCEPT ![w] = 0]
    /\ UNCHANGED <<inputs, hits, free, combo_queue, main_ctl, wclient, ghost>>

\* self.hits.append(display_text): the line and its captured data.
AppendHit(w) ==
    /\ wpc[w] = "append"
    /\ hits' = Append(hits, [line |-> LineOf(combo_line[w]),
                             captured |-> result[w].captured_data])
    /\ wpc' = [wpc EXCEPT ![w] = "inc"]
    /\ combo_line' = [combo_line EXCEPT ![w] = 0]
    /\ result' = [result EXCEPT ![w] = NoResult]
    /\ UNCHANGED <<inputs, stats, free, combo_queue, main_ctl, loaded, wclient,
                   ghost>>

\* self.stats['checked'] += 1: the read ...
CheckedRead(w) ==
    /\ wpc[w] = "inc"
    /\ loaded' = [loaded EXCEPT ![w] = stats.checked]
    /\ wpc' = [wpc EXCEPT ![w] = "incw"]
    /\ UNCHANGED <<inputs, shared, main_ctl, combo_line, result, wclient, ghost>>

\* ... and the write, then the pacing sleep.
CheckedStore(w) ==
    /\ wpc[w] = "incw"
    /\ stats' = StoreInto(stats, "checked", loaded[w])
    /\ wpc' = [wpc EXCEPT ![w] = "top"]
    /\ loaded' = [loaded EXCEPT ![w] = 0]
    /\ counted' = counted + 1
    /\ UNCHANGED <<inputs, hits, free, combo_queue, main_ctl, combo_line, result,
                   wclient, handed, seen, taken, passed, late>>

WorkerStep(w) ==
    \/ LoopTop(w)
    \/ Get(w)
    \/ CheckDone(w)
    \/ ProcessRead(w)
    \/ CounterStore(w)
    \/ AppendHit(w)
    \/ CheckedRead(w)
    \/ CheckedStore(w)

MainStep ==
    \/ StartCheck
    \/ Spawn
    \/ MonitorCond
    \/ StatsDiff
    \/ StatsStore
    \/ MonitorBody
    \/ Finish

Next ==
    \/ MainStep
    \/ Interrupt
    \/ \E w \in Workers : WorkerStep(w)

Spec == Init /\ [][Next]_vars

\* The same program on a file of valid pairs one line longer than the
\* files of Init, with all the threads.
LongFile == [k \in 1..(MaxLines + 1) |-> <<"u", ":", "p">>]

StatsInit ==
    /\ variant \in Variants
    /\ config_file = "workflow"
    /\ combo_file = LongFile
    /\ threads = MaxThreads
    /\ config = SchedConfig
    /\ NoProxyFile
    /\ seconds = MaxSamples
    /\ Constructed

StatsSpec == StatsInit /\ [][Next]_vars

\* The same program with one worker on a file of two pairs, during a run
\* in which the clock lets the rate be recomputed once more.
RateFile == [k \in 1..2 |-> <<"u", ":", "p">>]

RateInit ==
    /\ variant \in Variants
    /\ config_file = "workflow"
    /\ combo_file = RateFile
    /\ threads = 1
    /\ config = SchedConfig
    /\ NoProxyFile
    /\ seconds = MaxSamples + 1
    /\ Constructed

RateSpec == RateInit /\ [][Next]_vars

\* check_combo called once more on the same checker after an interrupted
\* call returned.  self.stats, self.hits and self.free are bound to new
\* objects, a new queue is made, and self.pause_event, the one Event the
\* checker has, is cleared.  The threads of the interrupted call were joined
\* for 0.1 s each and may still run: they keep their own queue and the same
\* Event, and a thread between the read and the write of a `+= 1` holds the
\* dict that was replaced.
CheckAgain ==
    /\ mainpc = "stopped"
    /\ first = 0
    /\ started + threads <= MaxThreads
    /\ Truthy(config_file)
    /\ first' = started
    /\ prev_queue' = combo_queue
    /\ BeginRun
    /\ loaded' = [w \in Workers |->
                     IF wpc[w] \in {"store", "incw"} THEN 0 - 1 ELSE loaded[w]]
    /\ UNCHANGED <<params, wpc, combo_line, result, wclient, ghost, mlocal>>

\* A checker whose check_combo is called a second time.
AgainNext ==
    \/ Next
    \/ CheckAgain

\* The combo file of the checker that is called twice: the line u:p.
AgainFile == [k \in 1..1 |-> <<"u", ":", "p">>]

AgainInit ==
    /\ variant \in Variants
    /\ config_file = "workflow"
    /\ combo_file = AgainFile
    /\ threads = 1
    /\ config = SchedConfig
    /\ NoProxyFile
    /\ seconds = 1
    /\ Constructed

AgainSpec == AgainInit /\ [][AgainNext]_vars

\* A workflow whose first step asks the site that sets a session cookie.
SessionConfig ==
    [SchedConfig EXCEPT !.requests[1].url = JStr(SessionUrl)]

\* One worker that checks two pairs against that site.
SessionInit ==
    /\ variant \in Variants
    /\ config_file = "workflow"
    /\ combo_file = RateFile
    /\ threads = 1
    /\ config = SessionConfig
    /\ NoProxyFile
    /\ seconds = 1
    /\ Constructed

SessionSpec == SessionInit /\ [][Next]_vars

\* A workflow whose list of requests is empty, next to the one of two steps.
NoStepsConfig == [SchedConfig EXCEPT !.requests = <<>>]

NoStepsInit ==
    /\ variant \in Variants
    /\ config_file = "workflow"
    /\ combo_file \in ComboFiles
    /\ threads \in 1..MaxThreads
    /\ config \in {NoStepsConfig, SchedConfig}
    /\ NoProxyFile
    /\ seconds = MaxSamples
    /\ Constructed

NoStepsSpec == NoStepsInit /\ [][Next]_vars

\* The same program on whatever the configs directory holds.
LoadInit ==
    /\ variant \in Variants
    /\ config_file \in ConfigFiles
    /\ combo_file = RateFile
    /\ threads \in 1..MaxThreads
    /\ config = IF config_file = "workflow" THEN SchedConfig ELSE NoConfig
    /\ NoProxyFile
    /\ seconds = MaxSamples
    /\ Constructed

LoadSpec == LoadInit /\ [][Next]_vars

\* The same program on two pairs of different usernames, with a workflow
\* whose templates carry the markers and whose capture rule stores what
\* the final answer has between "a" and "b".
ScopeFile == << <<"u", ":", "p">>, <<"v", ":", "p">> >>

ScopeConfig ==
    [requests |->
        << [Request("GET") EXCEPT !.url = JStr(UsernameMarker)],
           [Request("POST") EXCEPT
               !.url = JStr(UsernameMarker),
               !.headers = TMap(<<[key |-> <<"h">>, value |-> JStr(UsernameMarker)]>>),
               !.data = TMap(<<[key |-> UsernameMarker,
                                value |-> TList(<<JStr(PasswordMarker)>>)]>>),
               !.json = TMap(<<[key |-> <<"k">>, value |-> JStr(PasswordMarker)]>>)] >>,
     capture  |-> <<CaptureRule(<<"x">>, A1, B1)>>,
     success_conditions |-> <<[type |-> "contains", value |-> A1, path |-> <<>>]>>,
     failure_conditions |-> <<[type |-> "contains", value |-> B1, path |-> <<>>]>>]

ScopeInit ==
    /\ variant \in Variants
    /\ config_file = "workflow"
    /\ combo_file = ScopeFile
    /\ threads \in 1..MaxThreads
    /\ config = ScopeConfig
    /\ NoProxyFile
    /\ seconds = MaxSamples
    /\ Constructed

ScopeSpec == ScopeInit /\ [][Next]_vars

\* The same program on that file with a proxy file and a proxy type, a
\* workflow of one step that makes a pair a hit when the server answers,
\* and a clock that lets the rate be recomputed once.
P1 == <<"1">>
P2 == <<"2">>

ProxyFiles == { <<>>, <<P1 \o <<" ">>, <<" ">>, P2>> }

ProxyConfig ==
    [requests |-> <<Request("GET")>>,
     capture  |-> <<>>,
     success_conditions |->
         <<[type |-> "status_code", value |-> <<"2", "0", "0">>, path |-> <<>>]>>,
     failure_conditions |-> <<>>]

ProxyInit ==
    /\ variant \in Variants
    /\ config_file = "workflow"
    /\ combo_file = LongFile
    /\ threads = MaxThreads
    /\ config = ProxyConfig
    /\ proxy_file \in ProxyFiles
    /\ proxy_type \in {"None", "SOCKS5"}
    /\ seconds = 1
    /\ Constructed

ProxySpec == ProxyInit /\ [][Next]_vars

\* The same program on files whose lines have several colons, padding,
\* no colon, only blanks or nothing at all.
PaddedLines ==
    { <<"u", ":", "p", ":", "q">>, <<" ", "u", ":", "p", " ">>, <<":">>,
      <<"u">>, <<" ">>, <<>> }

LinesInit ==
    /\ variant \in Variants
    /\ config_file = "workflow"
    /\ combo_file \in UNION { [1..n -> PaddedLines] : n \in 1..MaxLines }
    /\ threads \in 1..MaxThreads
    /\ config = ProxyConfig
    /\ NoProxyFile
    /\ seconds = MaxSamples
    /\ Constructed

LinesSpec == LinesInit /\ [][Next]_vars

\* ------------------------------------------ the account checker alone
\* One run of check_with_config on a workflow and a server drawn at the
\* start, followed by process_result's choice of branch.
CkMethods == {"GET", "post", "PUT"}

CkRequests == UNION { [1..n -> { Request(m) : m \in CkMethods }] : n \in 0..MaxSteps }

CkCaptures == { <<>>, <<CaptureRule(<<"x">>, A1, B1)>> }

CkSuccess ==
    { <<>>,
      <<[type |-> "contains", value |-> A1, path |-> <<>>]>>,
      <<[type |-> "status_code", value |-> <<"2", "0", "0">>, path |-> <<>>],
        [type |-> "CONTAINS", value |-> A1, path |-> <<>>]>> }

CkFailure ==
    { <<>>,
      <<[type |-> "contains", value |-> B1, path |-> <<>>]>>,
      <<[type |-> "contains", value |-> B1, path |-> <<>>],
        [type |-> "not_contains", value |-> A1, path |-> <<>>]>> }

CkConfigs ==
    [requests : CkRequests, capture : CkCaptures,
     success_conditions : CkSuccess, failure_conditions : CkFailure]

\* What the attempts of one step meet: an answer every time, a failure every
\* time, or failures and then an answer or another kind of exception.
CkAttempts ==
    { Always(Answer(200, t, EmptyDict)) : t \in {<<>>, A1, B1, A1 \o B1} }
    \cup { Always(Failure("RequestException")), Always(Failure("other")),
           <<Failure("RequestException"), Failure("RequestException"),
             Answer(200, A1, EmptyDict)>>,
           <<Failure("RequestException"), Answer(200, A1, EmptyDict),
             Answer(200, B1, EmptyDict)>>,
           <<Failure("RequestException"), Failure("other"),
             Answer(200, A1, EmptyDict)>> }

NoRun ==
    [i |-> 0, config |-> NoConfig, result |-> InitialResult,
     captured_data |-> <<>>, sent |-> <<>>, evaluated |-> <<>>]

\* The pair the account checker is run on when it runs on its own.
CkUser == <<"u">>
CkPass == <<"p">>

\* The scheduler while the account checker runs on its own.
SchedIdle ==
    /\ config_file = "workflow"
    /\ combo_file = <<>>
    /\ threads = 1
    /\ stats = FreshStats(0)
    /\ hits = <<>>
    /\ free = <<>>
    /\ combo_queue = <<>>
    /\ is_checking = FALSE
    /\ pause_event = FALSE
    /\ started = 0
    /\ mainpc = "idle"
    /\ wpc = [w \in Workers |-> "unstarted"]
    /\ combo_line = [w \in Workers |-> 0]
    /\ result = [w \in Workers |-> NoResult]
    /\ loaded = [w \in Workers |-> 0]
    /\ handed = <<>>
    /\ seen = [b \in Buckets |-> 0]
    /\ counted = 0
    /\ checks_diff = 0
    /\ samples = 0
    /\ seconds = MaxSamples
    /\ NoProxyFile
    /\ proxies = <<>>
    /\ proxy_index = [w \in Workers |-> 0]
    /\ proxy = [w \in Workers |-> NoProxy]
    /\ taken = [w \in Workers |-> 0]
    /\ passed = {}
    /\ late = [w \in Workers |-> 0]
    /\ cookies = [w \in Workers |-> {}]
    /\ first = 0
    /\ prev_queue = <<>>

FnReady == [phase |-> "ready", success |-> FALSE, failure |-> FALSE]

CheckerInit ==
    /\ variant \in Variants
    /\ config \in CkConfigs
    /\ \E srv \in [1..Len(config.requests) -> CkAttempts] :
          ck = [phase |-> "ready", srv |-> srv, run |-> NoRun, bucket |-> "none"]
    /\ fn = FnReady
    /\ SchedIdle

sched == <<config_file, combo_file, threads, stats, hits, free, combo_queue, is_checking,
           pause_event, started, mainpc, wpc, combo_line, result, loaded,
           handed, seen, counted, checks_diff, samples, seconds, proxy_file,
           proxy_type,
           proxies, proxy_index, proxy, taken, passed, late, cookies, first,
           prev_queue>>

\* http_client.check_with_config(username, password, config).
RunCheck ==
    /\ ck.phase = "ready"
    /\ LET run == check_with_config(ClientOf(variant), CkUser, CkPass, config, ck.srv)
       IN  /\ ck' = [ck EXCEPT !.phase = "ran", !.run = run]
           /\ config' = run.config
    /\ UNCHANGED <<variant, sched, fn>>

\* check_account's result goes to process_result.
ProcessOne ==
    /\ ck.phase = "ran"
    /\ ck' = [ck EXCEPT !.phase = "processed", !.bucket = Bucket(ck.run.result)]
    /\ UNCHANGED <<variant, config, sched, fn>>

\* What the last step of the workflow in `ck` gets from the client.
LastSent == send_request(ClientOf(variant), ck.srv[Len(config.requests)])

\* _check_conditions called on the last step's response with each of the
\* two rule lists of the workflow.
Evaluate ==
    /\ fn.phase = "ready"
    /\ Len(config.requests) >= 1
    /\ ~LastSent.raised
    /\ fn' = [phase |-> "done",
              success |-> check_conditions(LastSent.response, config.success_conditions),
              failure |-> check_conditions(LastSent.response, config.failure_conditions)]
    /\ UNCHANGED <<variant, config, sched, ck>>

CheckerNext == RunCheck \/ ProcessOne \/ Evaluate

CheckerSpec == CheckerInit /\ [][CheckerNext]_vars

\* Workflows of steps with the methods GET, put and patch: HttpClient has
\* no branch for PATCH, SimpleHttpClient none for PUT and PATCH.
MethodChoices == {"GET", "put", "patch"}

MethodServers ==
    { Always(Answer(200, A1, EmptyDict)), Always(Answer(200, B1, EmptyDict)),
      Always(Failure("RequestException")) }

MethodsInit ==
    /\ variant \in Variants
    /\ \E n \in 1..MaxSteps :
          \E requests \in [1..n -> { Request(m) : m \in MethodChoices }] :
             \E capture \in CkCaptures, success \in CkSuccess, failure \in CkFailure :
                config = [requests |-> requests, capture |-> capture,
                          success_conditions |-> success,
                          failure_conditions |-> failure]
    /\ \E srv \in [1..Len(config.requests) -> MethodServers] :
          ck = [phase |-> "ready", srv |-> srv, run |-> NoRun, bucket |-> "none"]
    /\ fn = FnReady
    /\ SchedIdle

MethodsSpec == MethodsInit /\ [][CheckerNext]_vars

\* ------------------------------------------ the condition evaluator alone
\* Runs of a one-step workflow whose success rules are drawn from the
\* status_code and json_contains rules below, on a server that answers
\* with one of the bodies below or not at all.
StatusValues ==
    { <<"2", "0", "0">>, <<"4", "0", "4">>, <<" ", "2", "0", "0">>, <<"a">>, <<>> }

JsonPaths ==
    { <<>>, <<"k">>, <<"k", ".", "j">>, <<".">>, <<"z">>, <<"k", ".", ".", "j">> }

JsonNeedles == { A1, <<>>, <<"{", "}">> }

RuleSet ==
    { [type |-> "status_code", value |-> v, path |-> <<>>] : v \in StatusValues }
    \cup { [type |-> "json_contains", value |-> v, path |-> q] :
              v \in JsonNeedles, q \in JsonPaths }
    \cup { [type |-> "contains", value |-> A1, path |-> <<>>] }

RuleLists == UNION { [1..n -> RuleSet] : n \in 1..MaxRules }

JsonBodies ==
    { Invalid, EmptyDict, JList,
      JDict(<<"k">>, JStr(A1)),
      JDict(<<"k">>, JInt(<<"1">>)),
      JDict(<<"k">>, JDict(<<"j">>, JStr(A1))) }

RuleServers ==
    { <<Always(Answer(code, A1, body))>> : code \in {200, 404}, body \in JsonBodies }
    \cup { <<Always(Failure("RequestException"))>> }

RulesInit ==
    /\ variant \in Variants
    /\ \E rules \in RuleLists :
          config = [requests |-> <<Request("GET")>>, capture |-> <<>>,
                    success_conditions |-> rules, failure_conditions |-> <<>>]
    /\ \E srv \in RuleServers :
          ck = [phase |-> "ready", srv |-> srv, run |-> NoRun, bucket |-> "none"]
    /\ fn = FnReady
    /\ SchedIdle

RulesSpec == RulesInit /\ [][CheckerNext]_vars

\* Rule lists that mix rules of types the evaluator does not know ("regex",
\* "equals", no type at all) with contains and not_contains rules.
OddTypes == {"regex", "equals", ""}

OddRuleSet ==
    { [type |-> t, value |-> v, path |-> <<>>] : t \in OddTypes, v \in {A1, <<>>} }
    \cup { [type |-> t, value |-> A1, path |-> <<>>] : t \in {"contains", "NOT_CONTAINS"} }

OddRuleLists == UNION { [1..n -> OddRuleSet] : n \in 1..MaxRules }

OddServers ==
    { <<Always(Answer(code, t, EmptyDict))>> : code \in {200, 404}, t \in {<<>>, A1, B1} }
    \cup { <<Always(Failure("RequestException"))>> }

OddInit ==
    /\ variant \in Variants
    /\ \E rules \in OddRuleLists, others \in {<<>>} \cup { <<r>> : r \in OddRuleSet } :
          config = [requests |-> <<Request("GET")>>, capture |-> <<>>,
                    success_conditions |-> rules, failure_conditions |-> others]
    /\ \E srv \in OddServers :
          ck = [phase |-> "ready", srv |-> srv, run |-> NoRun, bucket |-> "none"]
    /\ fn = FnReady
    /\ SchedIdle

OddSpec == OddInit /\ [][CheckerNext]_vars

\* ------------------------------------------------- the capture loop alone
\* Runs of a workflow of one or more GET steps whose capture rules are
\* drawn from the rules below (one with an empty delimiter, one whose start
\* is a number, two that store under the same name), on a server that
\* answers each step with one of the bodies below or not at all.
CapTexts ==
    { <<>>, <<"a", "x", "b">>, <<"a", "y", "b">>, <<"c", "z", "d">>, <<"a", "b">> }

CapRules ==
    { CaptureRule(<<"x">>, A1, B1),
      CaptureRule(<<"t">>, <<"c">>, <<"d">>),
      CaptureRule(<<"x">>, <<"c">>, <<"d">>),
      CaptureRule(<<"x">>, A1, <<>>),
      [CaptureRule(<<"e">>, A1, B1) EXCEPT !.start_type = "int"] }

CapLists == UNION { [1..n -> CapRules] : n \in 0..2 }

CapAttempts ==
    { Always(Answer(200, t, EmptyDict)) : t \in CapTexts }
    \cup { Always(Failure("RequestException")) }

CaptureInit ==
    /\ variant \in Variants
    /\ \E n \in 1..MaxSteps, rules \in CapLists :
          config = [requests |-> [i \in 1..n |-> Request("GET")],
                    capture |-> rules,
                    success_conditions |->
                        <<[type |-> "contains", value |-> <<"x">>, path |-> <<>>]>>,
                    failure_conditions |->
                        <<[type |-> "contains", value |-> <<"z">>, path |-> <<>>]>>]
    /\ \E srv \in [1..Len(config.requests) -> CapAttempts] :
          ck = [phase |-> "ready", srv |-> srv, run |-> NoRun, bucket |-> "none"]
    /\ fn = FnReady
    /\ SchedIdle

CaptureSpec == CaptureInit /\ [][CheckerNext]_vars

\* Workflows whose every step carries the markers of the captured variable
\* x in its url and in a header, and whose capture rules may store x.
MarkedUrl == <<"/">> \o Marker(<<"x">>) \o Marker(<<"X">>)

MarkedRequest(method) ==
    [Request(method) EXCEPT
        !.url = JStr(MarkedUrl),
        !.headers = TMap(<<[key |-> <<"h">>, value |-> JStr(Marker(<<"x">>))]>>)]

MarkedInit ==
    /\ variant \in Variants
    /\ \E n \in 1..MaxSteps, rules \in CapLists :
          config = [requests |-> [i \in 1..n |-> MarkedRequest("GET")],
                    capture |-> rules,
                    success_conditions |->
                        <<[type |-> "contains", value |-> <<"x">>, path |-> <<>>]>>,
                    failure_conditions |->
                        <<[type |-> "contains", value |-> <<"z">>, path |-> <<>>]>>]
    /\ \E srv \in [1..Len(config.requests) -> CapAttempts] :
          ck = [phase |-> "ready", srv |-> srv, run |-> NoRun, bucket |-> "none"]
    /\ fn = FnReady
    /\ SchedIdle

MarkedSpec == MarkedInit /\ [][CheckerNext]_vars

\* ------------------------------------------------- the extractor alone
\* extract_substring on a text and two delimiters, and the capture loop of
\* the variant's client on the same text with one rule of those delimiters.
TextChars == { "A", "B", ".", " " }

Texts == UNION { [1..n -> TextChars] : n \in 0..MaxText }

Delimiters == { <<>>, <<"A">>, <<"B">>, <<".">> }

ExtractInit ==
    /\ variant \in Variants
    /\ config = SchedConfig
    /\ ck = CkOff
    /\ \E text \in Texts, start \in Delimiters, end \in Delimiters :
          fn = [phase |-> "text", text |-> text, start |-> start, end |-> end,
                out |-> [found |-> FALSE, value |-> <<>>], stored |-> <<>>]
    /\ SchedIdle

Extract ==
    /\ fn.phase = "text"
    /\ fn' = [fn EXCEPT
                !.phase = "extracted",
                !.out = extract_substring(fn.text, fn.start, fn.end),
                !.stored = capture_from(ClientOf(variant), fn.text,
                             <<CaptureRule(<<"x">>, fn.start, fn.end)>>,
                             1, NoRun).captured_data]
    /\ UNCHANGED <<variant, config, sched, ck>>

ExtractSpec == ExtractInit /\ [][Extract]_vars

\* ---------------------------------------------- the substitution alone
\* _replace_variables and the preparation of a request's `data` on a
\* template, a pair and captured data drawn at the start; then the
\* preparation once more on its own result.
TemplateStrings ==
    { UsernameMarker,
      <<"a">> \o PasswordMarker \o PasswordMarker,
      Marker(<<"T", "k">>) \o Marker(<<"T", "K">>) \o Marker(<<"t", "k">>),
      <<"u">> }

Leaves == { JStr(t) : t \in TemplateStrings } \cup { JInt(<<"1">>) }

TemplateKeys == { <<"k">>, UsernameMarker }

RECURSIVE Templates(_)
Templates(depth) ==
    IF depth = 0 THEN Leaves
    ELSE Leaves
         \cup { TList(<<v>>) : v \in Templates(depth - 1) }
         \cup { TMap(<<[key |-> k, value |-> v]>>) :
                    k \in TemplateKeys, v \in Templates(depth - 1) }
         \cup { TMap(<<[key |-> UsernameMarker, value |-> JInt(<<"1">>)],
                        [key |-> <<"u">>, value |-> v]>>) : v \in Leaves }

Usernames == { <<"u">>, PasswordMarker }

CapturedSets == { <<>>, <<[name |-> <<"T", "k">>, value |-> <<"v">>]>> }

SubstInit ==
    /\ variant \in Variants
    /\ config = SchedConfig
    /\ ck = CkOff
    /\ \E tree \in Templates(MaxDepth), username \in Usernames,
          captured_data \in CapturedSets :
          fn = [phase |-> "template", tree |-> tree, username |-> username,
                password |-> <<"p">>, captured_data |-> captured_data,
                replaced |-> tree, out |-> tree, out2 |-> tree]
    /\ SchedIdle

Substitute ==
    /\ fn.phase = "template"
    /\ fn' = [fn EXCEPT
                !.phase = "substituted",
                !.replaced = replace_variables(fn.tree, fn.username, fn.password,
                                               fn.captured_data),
                !.out = prepare_data(fn.tree, fn.username, fn.password,
                                     fn.captured_data)]
    /\ UNCHANGED <<variant, config, sched, ck>>

SubstituteAgain ==
    /\ fn.phase = "substituted"
    /\ fn' = [fn EXCEPT
                !.phase = "again",
                !.out2 = prepare_data(fn.out, fn.username, fn.password,
                                      fn.captured_data)]
    /\ UNCHANGED <<variant, config, sched, ck>>

SubstNext == Substitute \/ SubstituteAgain

SubstSpec == SubstInit /\ [][SubstNext]_vars

\* ------------------------------------------------- the ConfigManager
\* Python values that a configuration is made of: str and int (by their
\* text), list, tuple, and dict (its items in insertion order).
PyNone == [py |-> "None", text |-> <<>>, items |-> <<>>]
PyStr(t) == [py |-> "str", text |-> t, items |-> <<>>]
PyInt(t) == [py |-> "int", text |-> t, items |-> <<>>]
PyList(xs) == [py |-> "list", text |-> <<>>, items |-> xs]
PyTuple(xs) == [py |-> "tuple", text |-> <<>>, items |-> xs]
PyDict(items) == [py |-> "dict", text |-> <<>>, items |-> items]

\* json.dumps: a dict becomes an object whose member names are the keys as
\* strings (an int key by its digits), a list or a tuple an array.
RECURSIVE json_dumps(_)
json_dumps(v) ==
    CASE v.py = "dict" ->
           [js |-> "object", text |-> <<>>,
            items |-> [i \in 1..Len(v.items) |->
                          [name |-> v.items[i].key.text,
                           value |-> json_dumps(v.items[i].value)]]]
      [] v.py \in {"list", "tuple"} ->
           [js |-> "array", text |-> <<>>,
            items |-> [i \in 1..Len(v.items) |-> json_dumps(v.items[i])]]
      [] v.py = "str" -> [js |-> "string", text |-> v.text, items |-> <<>>]
      [] OTHER -> [js |-> "number", text |-> v.text, items |-> <<>>]

\* d[key] = value on the items of a dict: a key that is there keeps its
\* place and gets the new value.
PutItem(items, key, value) ==
    IF \E i \in 1..Len(items) : items[i].key = key
    THEN [i \in 1..Len(items) |->
             IF items[i].key = key THEN [key |-> key, value |-> value] ELSE items[i]]
    ELSE Append(items, [key |-> key, value |-> value])

\* json.load: an object becomes a dict with str keys (of two members with
\* one name the later wins), an array a list.
RECURSIVE json_load(_)
RECURSIVE LoadMembers(_, _, _)
LoadMembers(members, k, items) ==
    IF k > Len(members) THEN items
    ELSE LoadMembers(members, k + 1,
                     PutItem(items, PyStr(members[k].name), json_load(members[k].value)))

json_load(j) ==
    CASE j.js = "object" -> PyDict(LoadMembers(j.items, 1, <<>>))
      [] j.js = "array" -> PyList([i \in 1..Len(j.items) |-> json_load(j.items[i])])
      [] j.js = "string" -> PyStr(j.text)
      [] OTHER -> PyInt(j.text)

\* The file a name stands for: os.path.join(self.config_dir, f"{name}.json")
\* as the file system resolves it.  A name is given by its components
\* between the separators; the last component of a path stands for the
\* file <component>.json.
ConfigDir == <<"configs">>

RECURSIVE Resolved(_, _, _)
Resolved(parts, k, at) ==
    IF k > Len(parts) THEN at
    ELSE IF parts[k] = ".."
    THEN Resolved(parts, k + 1, IF at = <<>> THEN at ELSE SubSeq(at, 1, Len(at) - 1))
    ELSE Resolved(parts, k + 1, Append(at, parts[k]))

config_path(name) == Resolved(ConfigDir \o name, 1, <<>>)

DirOf(path) == SubSeq(path, 1, Len(path) - 1)

\* The names given to the manager, the dicts saved, and the directories
\* there are: the working directory and the configs directory.
ManagerNames == { <<"a">>, <<"b">>, <<"..", "a">>, <<"s", "a">> }

ManagerDicts ==
    { PyDict(<<>>),
      PyDict(<<[key |-> PyStr(<<"k">>), value |-> PyStr(<<"v">>)]>>),
      PyDict(<<[key |-> PyStr(<<"k">>),
                value |-> PyList(<<PyInt(<<"1">>), PyDict(<<>>)>>)]>>),
      PyDict(<<[key |-> PyInt(<<"1">>), value |-> PyStr(<<"v">>)]>>),
      PyDict(<<[key |-> PyStr(<<"k">>), value |-> PyTuple(<<PyInt(<<"1">>)>>)]>>) }

ManagerDirs == { <<>>, ConfigDir }

ManagerPaths == { config_path(name) : name \in ManagerNames }

NoFile == [js |-> "absent", text |-> <<>>, items |-> <<>>]

NoCall ==
    [op |-> "none", name |-> <<>>, ok |-> FALSE, loaded |-> PyNone, listed |-> {},
     before |-> "never"]

\* A ConfigManager after construction on an empty configs directory.  `was`
\* tells of each name whether its last successful save or delete was a save
\* ("saved", with the dict in `saved`) or a delete, `ret` the last call and
\* what it returned.
ManagerInit ==
    /\ variant \in Variants
    /\ config = SchedConfig
    /\ ck = CkOff
    /\ fn = [phase |-> "manager",
             files |-> [path \in ManagerPaths |-> NoFile],
             was |-> [name \in ManagerNames |-> "never"],
             saved |-> [name \in ManagerNames |-> PyNone],
             ret |-> NoCall]
    /\ SchedIdle

\* save_config(name, config_data) with a dict: open(..., 'w') raises when
\* the directory of the path is not there, and the call returns False.
save_config(name, config_data) ==
    /\ fn.phase = "manager"
    /\ LET ok == DirOf(config_path(name)) \in ManagerDirs
       IN  fn' = [fn EXCEPT
                    !.files[config_path(name)] =
                        IF ok THEN json_dumps(config_data) ELSE @,
                    !.was[name] = IF ok THEN "saved" ELSE @,
                    !.saved[name] = IF ok THEN config_data ELSE @,
                    !.ret = [NoCall EXCEPT !.op = "save", !.name = name, !.ok = ok,
                                           !.before = fn.was[name]]]
    /\ UNCHANGED <<variant, config, sched, ck>>

load_config(name) ==
    /\ fn.phase = "manager"
    /\ fn' = [fn EXCEPT
                !.ret = [NoCall EXCEPT
                            !.op = "load", !.name = name,
                            !.before = fn.was[name],
                            !.loaded = IF fn.files[config_path(name)] = NoFile
                                       THEN PyNone
                                       ELSE json_load(fn.files[config_path(name)])]]
    /\ UNCHANGED <<variant, config, sched, ck>>

delete_config(name) ==
    /\ fn.phase = "manager"
    /\ LET ok == fn.files[config_path(name)] # NoFile
       IN  fn' = [fn EXCEPT
                    !.files[config_path(name)] = NoFile,
                    !.was[name] = IF ok THEN "deleted" ELSE @,
                    !.ret = [NoCall EXCEPT !.op = "delete", !.name = name, !.ok = ok,
                                           !.before = fn.was[name]]]
    /\ UNCHANGED <<variant, config, sched, ck>>

\* get_config_files: the names of the .json files of the configs directory
\* itself (the sorted list, as the set of its elements).
get_config_files ==
    /\ fn.phase = "manager"
    /\ fn' = [fn EXCEPT
                !.ret = [NoCall EXCEPT
                            !.op = "list",
                            !.listed = { <<path[Len(path)]>> :
                                            path \in { q \in ManagerPaths :
                                                          /\ DirOf(q) = ConfigDir
                                                          /\ fn.files[q] # NoFile } }]]
    /\ UNCHANGED <<variant, config, sched, ck>>

ManagerNext ==
    \/ \E name \in ManagerNames, config_data \in ManagerDicts :
          save_config(name, config_data)
    \/ \E name \in ManagerNames : load_config(name)
    \/ \E name \in ManagerNames : delete_config(name)
    \/ get_config_files

ManagerSpec == ManagerInit /\ [][ManagerNext]_vars

\* -------------------------------------------- account checker properties
\* The final response of the run in `ck`, when the last step got one.
CkFinal == send_request(ClientOf(variant), ck.srv[Len(config.requests)]).response

\* C3: a pair whose workflow finished without error is a Hit whenever the
\* success rules are satisfied by the final response (also when the failure
\* rules are), a Fail when only the failure rules are, and Unknown otherwise.
C3_HitBeforeFail ==
    (ck.phase = "processed" /\ ~ck.run.result.error /\ Len(config.requests) >= 1) =>
        LET S == check_conditions(CkFinal, config.success_conditions)
            F == check_conditions(CkFinal, config.failure_conditions)
        IN  ck.bucket = IF S THEN "hit" ELSE IF F THEN "dead" ELSE "free"

C3_Witness ==
    /\ ck.phase = "processed"
    /\ ~ck.run.result.error
    /\ Len(config.requests) = 2
    /\ check_conditions(CkFinal, config.success_conditions)
    /\ check_conditions(CkFinal, config.failure_conditions)
    /\ ck.bucket = "hit"

\* Step i of the run in `ck` ends in a transport error: the one attempt of
\* SimpleHttpClient fails, or the attempts of HttpClient fail up to the last
\* one or up to an exception that is no RequestException.
CkTransportError(i) ==
    LET a == ck.srv[i]
    IN  IF ClientOf(variant) = "SimpleHttpClient" THEN a[1].raises # "none"
        ELSE \/ \A k \in 1..Retries : a[k].raises = "RequestException"
             \/ \E k \in 1..Retries :
                    /\ a[k].raises = "other"
                    /\ \A j \in 1..(k - 1) : a[j].raises = "RequestException"

CkUnsupported(i) ==
    Upper(config.requests[i].method) \notin SupportedMethods(ClientOf(variant))

\* C4: the requests are sent in the configured order, and a transport error
\* on step i ends the run there with an error result carrying the error
\* text: no later step is sent, no capture rule or rule set is applied.
C4_InOrderAbortOnError ==
    ck.phase # "ready" =>
        LET run == ck.run
            n   == Len(config.requests)
        IN  /\ Len(run.sent) <= n
            /\ \A j \in 1..Len(run.sent) : run.sent[j].step = j
            /\ (\A i \in 1..n : ~CkTransportError(i) /\ ~CkUnsupported(i))
                  => Len(run.sent) = n
            /\ \A i \in 1..n :
                  ( /\ CkTransportError(i)
                    /\ ~CkUnsupported(i)
                    /\ \A j \in 1..(i - 1) : ~CkTransportError(j) /\ ~CkUnsupported(j) )
                  => /\ Len(run.sent) = i
                     /\ run.result.error
                     /\ run.result.error_message \in {ErrText, OtherText}
                     /\ run.evaluated = <<>>
                     /\ ~run.result.success
                     /\ ~run.result.failure
                     /\ run.result.captured_data = <<>>

C4_Witness ==
    /\ ck.phase = "ran"
    /\ Len(config.requests) = 2
    /\ CkTransportError(1)
    /\ ~CkTransportError(2)
    /\ ~CkUnsupported(2)
    /\ config.success_conditions # <<>>
    /\ Len(ck.run.sent) = 1
    /\ ck.run.result.error

\* ------------------------------------------------ scheduler properties
QueuedSet == { Queued(combo_file)[j] : j \in 1..Len(Queued(combo_file)) }

\* Every thread of the run was started and has left worker_thread.
Exited == started = threads /\ \A w \in 1..threads : wpc[w] = "done"

\* The worker is between a successful dequeue and its store of `checked`.
InFlight(w) == wpc[w] \in {"check", "process", "store", "append", "inc", "incw"}

RECURSIVE SumTo(_, _)
SumTo(f, n) == IF n = 0 THEN 0 ELSE f[n] + SumTo(f, n - 1)

HandedTotal == SumTo(handed, Len(combo_file))

SeenTotal == seen["error"] + seen["hit"] + seen["dead"] + seen["free"]

At(pcs) == Cardinality({ w \in Workers : wpc[w] \in pcs })

\* C1: no line is passed to check_account twice, a line that was not queued
\* is never passed, and when a run without cancellation has ended (check_combo
\* has completed, or all workers have exited) every queued line was passed
\* exactly once.
C1_EachPairOnce ==
    /\ \A k \in DOMAIN handed : handed[k] <= 1
    /\ \A k \in DOMAIN handed : k \notin QueuedSet => handed[k] = 0
    /\ (~pause_event /\ (mainpc = "completed" \/ Exited))
          => \A k \in QueuedSet : handed[k] = 1

C1_Witness ==
    /\ mainpc = "completed"
    /\ ~pause_event
    /\ threads >= 2
    /\ Cardinality(QueuedSet) >= 2
    /\ \A k \in QueuedSet : handed[k] = 1

\* C2: in a run without cancellation, once all workers have exited,
\* `checked` equals the number of queued pairs.
C2_NoLostIncrement ==
    (Exited /\ ~pause_event) => stats.checked = Len(Queued(combo_file))

\* C5: a worker leaves its loop only at the loop top with the event set
\* (taking nothing from the queue) or on an empty queue; and every dequeued
\* pair is checked, recorded and counted in `checked` unless its worker is
\* still inside that iteration, whether or not the event is set.
C5_Accounted ==
    mainpc # "idle" =>
        /\ Len(Queued(combo_file)) - Len(combo_queue) = counted + At({"check", "process", "store", "append", "inc", "incw"})
        /\ HandedTotal = counted + At({"process", "store", "append", "inc", "incw"})
        /\ SeenTotal = counted + At({"store", "append", "inc", "incw"})

C5_ExitStep ==
    \A w \in Workers :
        (wpc[w] # "done" /\ wpc'[w] = "done") =>
            \/ wpc[w] = "top" /\ pause_event /\ combo_queue' = combo_queue
            \/ wpc[w] = "get" /\ combo_queue = <<>>

C5_CancelAtLoopTop == [](C5_Accounted) /\ [][C5_ExitStep]_vars

C5_Witness ==
    /\ pause_event
    /\ \E w \in Workers : wpc[w] = "incw"
    /\ \E w \in Workers : wpc[w] = "done" /\ combo_queue # <<>>

\* C6: when check_combo has returned after an interrupt, no worker is still
\* inside an iteration.
C6_ReturnsAfterDrain ==
    mainpc = "stopped" => \A w \in Workers : ~InFlight(w)

\* C7: a worker whose dequeue finds the queue empty terminates.
C7_EmptyQueueEndsWorker ==
    [][\A w \in Workers :
          (wpc[w] = "get" /\ combo_queue = <<>> /\ wpc'[w] # wpc[w])
              => wpc'[w] = "done"]_vars

\* C8: check_combo is past its monitor loop only if `checked` equals
\* `tocheck` or no worker is alive; and the loop is left when the body finds
\* checked = tocheck or the loop condition finds no worker alive.
C8_Past ==
    mainpc \in {"final", "fstore", "finish", "completed"} =>
        \/ stats.checked = stats.tocheck
        \/ \A w \in 1..started : ~Alive(w)

C8_Leaves ==
    /\ (mainpc = "test" /\ stats.checked = stats.tocheck /\ mainpc' # mainpc)
          => mainpc' \in {"final", "stopped"}
    /\ (mainpc = "monitor" /\ ~AnyAlive /\ mainpc' # mainpc)
          => mainpc' \in {"final", "stopped"}

C8_CompletionOnlyWhenDone == [](C8_Past) /\ [][C8_Leaves]_vars

C8_Witness ==
    /\ mainpc = "completed"
    /\ stats.checked = stats.tocheck
    /\ stats.tocheck >= 2
    /\ \E w \in 1..started : Alive(w)

C10_CheckedAtMostToCheck == stats.checked <= stats.tocheck

C10_Witness ==
    /\ stats.tocheck >= 2
    /\ stats.checked = stats.tocheck
    /\ threads >= 2

\* C11: stats['cpm'] is never negative.
C11_RateNeverNegative ==
    stats.cpm.num >= 0

\* -------------------------------------------- request executor properties
\* The first attempt of `a` that does not raise a RequestException (0: all
\* of them do).
FirstOther(a) ==
    IF \A n \in 1..Retries : a[n].raises = "RequestException" THEN 0
    ELSE CHOOSE n \in 1..Retries :
            /\ a[n].raises # "RequestException"
            /\ \A j \in 1..(n - 1) : a[j].raises = "RequestException"

\* The requests of the run in `ck` that HttpClient sent follow its retry
\* loop: the response of the first attempt that gets one, the error dict
\* after `retries` RequestExceptions, and no attempt after either.
RetriedRequests ==
    \A k \in 1..Len(ck.run.sent) :
        LET e == ck.run.sent[k]
            a == ck.srv[e.step]
            n == FirstOther(a)
        IN  /\ n = 0 => (e.tries = Retries /\ e.failed)
            /\ (n > 0 /\ a[n].raises = "none") => (e.tries = n /\ ~e.failed)

\* C12 as claimed: every request sent by either client is retried as above
\* and none lets an exception out of the client's get / post.
C12_RetriesAndNeverRaises ==
    ck.phase # "ready" =>
        /\ RetriedRequests
        /\ \A k \in 1..Len(ck.run.sent) : ~ck.run.sent[k].raised

\* C12 amended: HttpClient retries RequestExceptions as above and lets any
\* other exception out of get / post on the attempt that raised it, where
\* check_with_config turns it into an error result; SimpleHttpClient makes
\* one attempt and turns every exception into the error dict.
C12_RetriesInHttpClientOnly ==
    ck.phase # "ready" =>
        IF ClientOf(variant) = "HttpClient"
        THEN /\ RetriedRequests
             /\ \A k \in 1..Len(ck.run.sent) :
                   LET e == ck.run.sent[k]
                       n == FirstOther(ck.srv[e.step])
                   IN  e.raised <=> (n > 0 /\ ck.srv[e.step][n].raises = "other"
                                          /\ e.tries = n)
             /\ (\E k \in 1..Len(ck.run.sent) : ck.run.sent[k].raised)
                   => ck.run.result.error
        ELSE \A k \in 1..Len(ck.run.sent) :
                LET e == ck.run.sent[k]
                IN  /\ e.tries = 1
                    /\ ~e.raised
                    /\ e.failed <=> ck.srv[e.step][1].raises # "none"

\* A response obtained on the third attempt, and an exception let out on
\* the second.
C12_Witness ==
    /\ ck.phase = "ran"
    /\ ClientOf(variant) = "HttpClient"
    /\ Len(ck.run.sent) = 2
    /\ ck.run.sent[1].tries = Retries /\ ~ck.run.sent[1].failed
    /\ ck.run.sent[2].tries = 2 /\ ck.run.sent[2].raised

\* ------------------------------------------------- worker error handling
\* C13: no exception ends a worker.  A thread leaves worker_thread only at
\* the loop condition (the event is set) or on the `break` of cli_checker's
\* empty dequeue; an exception raised while a pair is handled becomes an
\* error result inside check_account, the AttributeError of cli_mode's
\* empty dequeue is caught by the outer handler, and in both cases the
\* worker is back at the loop condition afterwards.  So when the workers of
\* a run without cancellation have exited, every queued pair has reached
\* process_result, the ones after an error included.
C13_Step ==
    \A w \in Workers :
        /\ (wpc[w] # "done" /\ wpc'[w] = "done") =>
               \/ wpc[w] = "top" /\ pause_event
               \/ wpc[w] = "get" /\ combo_queue = <<>> /\ variant = "cli_checker"
        /\ (wpc[w] = "check" /\ wpc'[w] # "check") =>
               /\ wpc'[w] = "process"
               /\ result'[w].error_message = OtherText => result'[w].error
        /\ (wpc[w] = "incw" /\ wpc'[w] # "incw") => wpc'[w] = "top"

C13_RestProcessed ==
    (Exited /\ ~pause_event) =>
        /\ combo_queue = <<>>
        /\ SeenTotal = Cardinality(QueuedSet)

C13_NoExceptionEscapes == [](C13_RestProcessed) /\ [][C13_Step]_vars

\* A single worker holds the error result of an exception that was raised
\* inside check_account, is alive, and pairs remain on the queue.
C13_Witness ==
    /\ threads = 1
    /\ variant = "cli_mode"
    /\ wpc[1] = "process"
    /\ result[1].error /\ result[1].error_message = OtherText
    /\ combo_queue # <<>>

\* ------------------------------------------- condition evaluator properties
\* Every rule of the list is satisfied by the response.
AllRulesHold(response, conditions) ==
    \A k \in 1..Len(conditions) : rule_holds(response, conditions[k])

\* C14: _check_conditions is true exactly when the list is not empty and
\* every rule of it is satisfied; in a workflow the success and failure
\* flags of a run that got its final response are that value for a
\* non-empty list, so a workflow without success rules never gives a Hit
\* and one without failure rules never gives a Fail.
C14_RulesAnded ==
    /\ fn.phase = "done" =>
          /\ fn.success <=> (config.success_conditions # <<>>
                               /\ AllRulesHold(LastSent.response, config.success_conditions))
          /\ fn.failure <=> (config.failure_conditions # <<>>
                               /\ AllRulesHold(LastSent.response, config.failure_conditions))
    /\ (fn.phase = "done" /\ ck.phase # "ready" /\ ~ck.run.result.error) =>
          /\ ck.run.result.success = fn.success
          /\ ck.run.result.failure = fn.failure
    /\ ck.phase = "processed" =>
          /\ config.success_conditions = <<>> => ck.bucket # "hit"
          /\ config.failure_conditions = <<>> => ck.bucket # "dead"

\* Two failure rules of which the first is satisfied and the second is
\* not, and no success rules: neither flag is set.
C14_Witness ==
    /\ fn.phase = "done"
    /\ ck.phase = "processed"
    /\ config.success_conditions = <<>>
    /\ Len(config.failure_conditions) = 2
    /\ rule_holds(LastSent.response, config.failure_conditions[1])
    /\ ~rule_holds(LastSent.response, config.failure_conditions[2])
    /\ ~fn.success /\ ~fn.failure
    /\ ck.bucket = "free"

\* C15: a status_code rule is satisfied exactly when int(value) succeeds
\* and equals the status of the response; a value that is no integer makes
\* the whole list false, and the run is not an Error because of it.
C15_StatusCodeRule ==
    LET rules == config.success_conditions
        resp  == LastSent.response
    IN  /\ fn.phase = "done" =>
              /\ \A k \in 1..Len(rules) :
                    (rules[k].type = "status_code" /\ ParseInt(rules[k].value) = -1)
                        => ~fn.success
              /\ (Len(rules) = 1 /\ rules[1].type = "status_code") =>
                    (fn.success <=> /\ ParseInt(rules[1].value) # -1
                                    /\ ParseInt(rules[1].value) = resp.status_code)
        /\ (ck.phase # "ready" /\ ~resp.error) => ~ck.run.result.error
        /\ (ck.phase = "processed" /\ ~resp.error) => ck.bucket # "error"

\* The rule status_code "a" on a response with status 200: not satisfied,
\* and the pair is Unknown, not Error.
C15_Witness ==
    /\ fn.phase = "done"
    /\ ck.phase = "processed"
    /\ config.success_conditions =
          <<[type |-> "status_code", value |-> <<"a">>, path |-> <<>>]>>
    /\ LastSent.response.status_code = 200
    /\ ~fn.success
    /\ ck.bucket = "free"

\* The non-empty segments of a dotted path.
Segments(path) == SelectSeq(SplitDots(path), LAMBDA part : part # <<>>)

\* The value the segments lead to from v, or Missing when a key is absent
\* or the value to look into is no dict.
RECURSIVE PathValue(_, _)
PathValue(v, segs) ==
    IF segs = <<>> THEN v
    ELSE IF v.kind # "dict" THEN Missing
    ELSE IF \A j \in 1..Len(v.items) : v.items[j].key # Head(segs) THEN Missing
    ELSE PathValue(Lookup(v, Head(segs)), Tail(segs))

\* A list of one json_contains rule gives what the claim says of the rule.
JsonRuleFollowsPath ==
    LET rules == config.success_conditions
        resp  == LastSent.response
        body  == IF resp.is_dict \/ resp.json.kind = "invalid" THEN EmptyDict
                 ELSE resp.json
    IN  (fn.phase = "done" /\ Len(rules) = 1 /\ rules[1].type = "json_contains") =>
            LET reached == PathValue(body, Segments(rules[1].path))
            IN  fn.success <=> /\ reached.kind # "missing"
                               /\ Contains(rules[1].value, reached.str)

\* C16 as claimed: the rule follows its path, and on a body that is not
\* valid JSON every rule with a non-empty path fails.
C16_InvalidBodyFailsEveryPath ==
    /\ JsonRuleFollowsPath
    /\ fn.phase = "done" =>
          \A k \in 1..Len(config.success_conditions) :
              LET rule == config.success_conditions[k]
              IN  (/\ rule.type = "json_contains"
                   /\ rule.path # <<>>
                   /\ ~LastSent.response.is_dict
                   /\ LastSent.response.json.kind = "invalid") => ~fn.success

\* C16 amended: on a body that is not valid JSON every rule whose path has
\* a non-empty segment fails; a path of dots only is looked up in {}.
C16_JsonContains ==
    /\ JsonRuleFollowsPath
    /\ fn.phase = "done" =>
          \A k \in 1..Len(config.success_conditions) :
              LET rule == config.success_conditions[k]
              IN  (/\ rule.type = "json_contains"
                   /\ Segments(rule.path) # <<>>
                   /\ ~LastSent.response.is_dict
                   /\ LastSent.response.json.kind = "invalid") => ~fn.success

\* The rule k.j / "a" is satisfied on {"k": {"j": "a"}}.
C16_Witness ==
    /\ fn.phase = "done"
    /\ fn.success
    /\ Len(config.success_conditions) = 1
    /\ config.success_conditions[1].type = "json_contains"
    /\ config.success_conditions[1].path = <<"k", ".", "j">>
    /\ config.success_conditions[1].value = A1
    /\ ~LastSent.response.is_dict
    /\ LastSent.response.json = JDict(<<"k">>, JDict(<<"j">>, JStr(A1)))

\* ------------------------------------------------- extractor properties
\* `d` occurs in `text` at index k, character by character.
OccursAt(d, text, k) ==
    /\ k >= 1
    /\ k + Len(d) - 1 <= Len(text)
    /\ \A j \in 1..Len(d) : text[k + j - 1] = d[j]

\* The start indices of the pairs (occurrence of start, occurrence of end
\* after it).
StartsOf(text, start, end) ==
    { a \in 1..Len(text) :
        /\ OccursAt(start, text, a)
        /\ \E b \in (a + Len(start))..Len(text) : OccursAt(end, text, b) }

\* C17: extract_substring gives none when a delimiter is empty or the text
\* has no occurrence of start with an occurrence of end after it, and
\* otherwise the stripped text between the first occurrence of start and
\* the first occurrence of end after it, the delimiters being compared
\* character by character; SimpleHttpClient's capture stores the same.
C17_ExtractBetween ==
    fn.phase = "extracted" =>
        LET S == StartsOf(fn.text, fn.start, fn.end)
            none == fn.start = <<>> \/ fn.end = <<>> \/ S = {}
        IN  /\ fn.out.found <=> ~none
            /\ ~none =>
                  LET a == CHOOSE x \in S : \A y \in S : x <= y
                      firstAt == CHOOSE x \in 1..Len(fn.text) :
                                  /\ OccursAt(fn.start, fn.text, x)
                                  /\ \A y \in 1..(x - 1) : ~OccursAt(fn.start, fn.text, y)
                      E == { b \in (a + Len(fn.start))..Len(fn.text) :
                                OccursAt(fn.end, fn.text, b) }
                      b == CHOOSE x \in E : \A y \in E : x <= y
                  IN  /\ a = firstAt
                      /\ fn.out.value = Strip(SubSeq(fn.text, a + Len(fn.start), b - 1))
            /\ variant = "cli_checker" =>
                  fn.stored = IF fn.out.found
                              THEN <<[name |-> <<"x">>, value |-> fn.out.value]>>
                              ELSE <<>>

\* ".A .B" between "A" and "B": " ." is found and stripped to "."; the
\* dots of the text are no delimiters.
C17_Witness ==
    /\ fn.phase = "extracted"
    /\ fn.text = <<".", "A", " ", ".", "B">>
    /\ fn.start = <<"A">>
    /\ fn.end = <<"B">>
    /\ fn.out.found
    /\ fn.out.value = <<".">>

\* ----------------------------------------------- substitution properties
\* The markers of a pair and captured data with their values, in the order
\* _replace_variables goes through them.
RECURSIVE CapturedMarkers(_, _)
CapturedMarkers(captured_data, k) ==
    IF k > Len(captured_data) THEN <<>>
    ELSE <<[marker |-> Marker(StrUpper(captured_data[k].name)),
            value |-> captured_data[k].value],
           [marker |-> Marker(StrLower(captured_data[k].name)),
            value |-> captured_data[k].value],
           [marker |-> Marker(captured_data[k].name),
            value |-> captured_data[k].value]>>
         \o CapturedMarkers(captured_data, k + 1)

MarkerTable(username, password, captured_data) ==
    <<[marker |-> UsernameMarker, value |-> username],
      [marker |-> PasswordMarker, value |-> password]>>
    \o CapturedMarkers(captured_data, 1)

\* t with every occurrence of a marker of the table replaced by the
\* marker's value, in one pass from the left.
RECURSIVE Substituted(_, _)
Substituted(t, table) ==
    IF t = <<>> THEN <<>>
    ELSE LET here == { i \in 1..Len(table) : OccursAt(table[i].marker, t, 1) }
         IN  IF here = {} THEN <<Head(t)>> \o Substituted(Tail(t), table)
             ELSE LET i == CHOOSE x \in here : \A y \in here : x <= y
                  IN  table[i].value
                      \o Substituted(SubSeq(t, Len(table[i].marker) + 1, Len(t)), table)

\* The passes of Substituted with one marker at a time, from entry k on.
RECURSIVE OneByOne(_, _, _)
OneByOne(t, table, k) ==
    IF k > Len(table) THEN t
    ELSE OneByOne(Substituted(t, <<table[k]>>), table, k + 1)

\* The ideal substitution of a value tree: every string leaf and every key,
\* the shape kept.
RECURSIVE FullSubst(_, _)
FullSubst(tree, table) ==
    CASE tree.kind = "str" -> JStr(OneByOne(tree.str, table, 1))
      [] tree.kind = "list" ->
           TList([i \in 1..Len(tree.items) |-> FullSubst(tree.items[i], table)])
      [] tree.kind = "dict" ->
           TMap([i \in 1..Len(tree.items) |->
                   [key |-> OneByOne(tree.items[i].key, table, 1),
                    value |-> FullSubst(tree.items[i].value, table)]])
      [] OTHER -> tree

FnTable == MarkerTable(fn.username, fn.password, fn.captured_data)

\* C18: the prepared body is the template with every string leaf and every
\* key substituted and nothing else changed.
C18_ReachesEveryString ==
    fn.phase # "template" => fn.out = FullSubst(fn.tree, FnTable)

NoBrace(t) == \A k \in 1..Len(t) : t[k] # "{"

RECURSIVE ReachedIn(_)
ReachedIn(d) ==
    UNION { {d.items[i].key} \cup
            (LET value == d.items[i].value
             IN  CASE value.kind = "str" -> {value.str}
                   [] value.kind = "dict" -> ReachedIn(value)
                   [] value.kind = "list" ->
                        UNION { (LET item == value.items[j]
                                 IN  CASE item.kind = "str" -> {item.str}
                                       [] item.kind = "dict" -> ReachedIn(item)
                                       [] OTHER -> {}) : j \in 1..Len(value.items) }
                   [] OTHER -> {}) : i \in 1..Len(d.items) }

Reached(data) ==
    CASE data.kind = "str" -> {data.str}
      [] data.kind = "dict" -> ReachedIn(data)
      [] OTHER -> {}

NoMarkerLeft(data) ==
    \A t \in Reached(data) :
        \A i \in 1..Len(FnTable) : ~Contains(FnTable[i].marker, t)

\* C20: a prepared body in which no reached string contains a marker is
\* returned unchanged by a second preparation with the same pair and
\* captured data.
C20_IdempotentWithoutMarkers ==
    (fn.phase = "again" /\ NoMarkerLeft(fn.out)) => fn.out2 = fn.out

\* A dict of two keys whose first preparation changed it and left no
\* marker, prepared again.
C20_Witness ==
    /\ fn.phase = "again"
    /\ fn.tree.kind = "dict"
    /\ Len(fn.out.items) = 2
    /\ fn.out # fn.tree
    /\ NoMarkerLeft(fn.out)
    /\ fn.out2 = fn.out

\* ------------------------------------------------- capture properties
\* What the final response alone gives: the capture rules and the two rule
\* lists applied to that response and to nothing else.
FromFinalAlone ==
    final_conditions(CkFinal, config,
        capture_from(ClientOf(variant), CkFinal.text, config.capture, 1, NoRun)).result

\* C21: in a workflow of several steps the captured data, the success flag
\* and the failure flag of the outcome are what the capture rules and the
\* rule lists give on the response of the last step alone; a run that ends
\* in error at any step has no captured data and both flags false, whatever
\* the earlier steps answered.
C21_LastStepOnly ==
    (ck.phase # "ready") =>
        LET r == ck.run.result
        IN  IF r.error
            THEN r.captured_data = <<>> /\ ~r.success /\ ~r.failure
            ELSE /\ r.captured_data = FromFinalAlone.captured_data
                 /\ r.success = FromFinalAlone.success
                 /\ r.failure = FromFinalAlone.failure

\* Reached: a two-step run whose first answer satisfies a capture rule and
\* the success rule, and whose last answer satisfies neither.
C21_Witness ==
    /\ ck.phase = "ran"
    /\ Len(config.requests) = 2
    /\ config.capture = <<CaptureRule(<<"x">>, A1, B1)>>
    /\ ck.srv[1][1].text = <<"a", "x", "b">>
    /\ ck.srv[2][1] = Answer(200, <<"c", "z", "d">>, EmptyDict)
    /\ ck.run.result.captured_data = <<>>
    /\ ~ck.run.result.success
    /\ ck.run.result.failure

\* A capture rule that is applied (name and both delimiters non-empty) and
\* extracts a value from the final response.
Extracts(rule) ==
    /\ rule.name # <<>> /\ rule.start # <<>> /\ rule.end # <<>>
    /\ capture_one(ClientOf(variant), CkFinal.text, rule).found

EveryStepAnswers ==
    \A i \in 1..Len(config.requests) : ck.srv[i][1].raises = "none"

\* C22: when every step is answered, the capture rules that fail to
\* extract (no match, or an exception during the extraction) are as if they
\* were not in the list: the run does not end in error, its result is the
\* result of the same run with only the extracting rules, a name that no
\* extracting rule stores is absent from the captured data, and both rule
\* lists are evaluated.
C22_FailedCaptureSkipped ==
    (ck.phase # "ready" /\ EveryStepAnswers) =>
        LET extracting == SelectSeq(config.capture, Extracts)
            without == check_with_config(ClientOf(variant), CkUser, CkPass,
                           [config EXCEPT !.capture = extracting], ck.srv)
            r == ck.run.result
        IN  /\ ~r.error
            /\ r = without.result
            /\ Bucket(r) = Bucket(check_with_config(ClientOf(variant), CkUser, CkPass,
                                [config EXCEPT !.capture = <<>>], ck.srv).result)
            /\ \A k \in 1..Len(config.capture) :
                  (\A j \in 1..Len(extracting) :
                        extracting[j].name # config.capture[k].name)
                  => \A c \in 1..Len(r.captured_data) :
                        r.captured_data[c].name # config.capture[k].name
            /\ \E e \in 1..Len(ck.run.evaluated) : ck.run.evaluated[e] = "success"
            /\ \E e \in 1..Len(ck.run.evaluated) : ck.run.evaluated[e] = "failure"

\* Reached: SimpleHttpClient on a list whose first rule raises in re.escape
\* and whose second rule extracts "x"; the pair is a hit.
C22_Witness ==
    /\ ck.phase = "processed"
    /\ variant = "cli_checker"
    /\ Len(config.capture) = 2
    /\ config.capture[1].start_type = "int"
    /\ config.capture[2] = CaptureRule(<<"x">>, A1, B1)
    /\ ck.run.result.captured_data = <<[name |-> <<"x">>, value |-> <<"x">>]>>
    /\ ck.bucket = "hit"

\* ------------------------------------------------- proxy properties
\* The proxy the k-th pair of a worker is checked through.
ExpectedProxy(k) ==
    IF proxies = <<>> \/ proxy_type = "None" THEN NoProxy
    ELSE ProxyDict(proxy_type, proxies[((k - 1) % Len(proxies)) + 1], NoProxy)

\* C23: while a worker checks the k-th pair it has dequeued, its http client
\* is set to element (k-1) mod M of the pool of M proxies, whatever the
\* other workers have dequeued; with an empty pool or proxy type 'None' it
\* is set to no proxy.
C23_RoundRobinPerWorker ==
    \A w \in Workers :
        (wpc[w] = "check") => proxy[w] = ExpectedProxy(taken[w])

\* Reached: with a pool of two, a worker checks its third pair through the
\* first proxy of the pool.
C23_Witness ==
    /\ Len(proxies) = 2
    /\ \E w \in Workers :
          /\ wpc[w] = "check"
          /\ taken[w] = Len(proxies) + 1
          /\ proxy[w] = [scheme |-> "socks5", address |-> proxies[1]]

\* ------------------------------------------------- scoping properties
\* The values a capture between "a" and "b" can take from the answers to
\* the pair of a line: the empty text, or the username the echoing server
\* was asked for.
OwnValues(line) == { <<>>, SplitPair(line).username }

\* C24: the captured data of the result a worker holds for a pair, and the
\* captured data recorded with a hit, hold only values captured from the
\* answers to that pair: never a value captured for another pair, by the
\* same worker or by another one.
C24_CapturedScopedToPair ==
    /\ \A w \in Workers :
          (combo_line[w] # 0) =>
              \A c \in 1..Len(result[w].captured_data) :
                  result[w].captured_data[c].value \in OwnValues(combo_file[combo_line[w]])
    /\ \A h \in 1..Len(hits) :
          \A c \in 1..Len(hits[h].captured) :
              hits[h].captured[c].value \in OwnValues(hits[h].line)

\* Reached: one worker has recorded a hit for the first pair with the
\* captured value "u" and then holds, for the second pair, a result with
\* no captured data.
C24_Witness ==
    /\ threads = 1
    /\ Len(hits) = 1
    /\ hits[1].line = ScopeFile[1]
    /\ hits[1].captured = <<[name |-> <<"x">>, value |-> <<"u">>]>>
    /\ wpc[1] = "process"
    /\ combo_line[1] = 2
    /\ result[1].captured_data = <<>>

\* C25: no step of the program changes the workflow configuration: after
\* the workflow has run for a pair (templates filled in, captures stored,
\* rule lists evaluated) the shared config object is what it was.
C25_ConfigReadOnly == [][config' = config]_vars

\* Reached: both pairs have been checked from the same templates, each
\* request carrying its own username (which the server echoed), and the
\* templates still carry the markers.
C25_Witness ==
    /\ Len(hits) = 2
    /\ hits[1].captured = <<[name |-> <<"x">>, value |-> SplitPair(hits[1].line).username]>>
    /\ hits[2].captured = <<[name |-> <<"x">>, value |-> SplitPair(hits[2].line).username]>>
    /\ hits[1].line # hits[2].line
    /\ config.requests[2].url = JStr(UsernameMarker)

\* ------------------------------------------------- rate properties
\* update_stats has stored a new rate in this step.
Sampled == samples' = samples + 1

\* 5 * d * (n / d') = ... : the rate c is exactly 0.6 * p + 0.4 * i.
ExactlySmoothed(c, p, i) ==
    5 * c.num * p.den = c.den * (3 * p.num + 2 * i * p.den)

\* C26 as stated: at each sample the new rate is the instantaneous rate
\* checks_diff * 60 when the previous rate is 0, and exactly
\* 0.6 * previous + 0.4 * instantaneous otherwise.
C26_SmoothedExactly ==
    [][Sampled =>
          IF stats.cpm.num = 0
          THEN stats'.cpm = Rate(checks_diff * 60)
          ELSE ExactlySmoothed(stats'.cpm, stats.cpm, checks_diff * 60)]_vars

\* C26, amended: ... and otherwise 0.6 * previous + 0.4 * instantaneous,
\* which cli_checker cuts off towards zero to a whole number (cli_mode
\* keeps the fraction).
C26_SmoothedThenTruncated ==
    [][Sampled =>
          LET p == stats.cpm
              i == checks_diff * 60
              c == stats'.cpm
          IN  IF p.num = 0 THEN c = Rate(i)
              ELSE IF variant = "cli_mode" THEN ExactlySmoothed(c, p, i)
              ELSE /\ c.den = 1 /\ p.den = 1
                   /\ IF 3 * p.num + 2 * i >= 0
                      THEN 5 * c.num <= 3 * p.num + 2 * i /\ 3 * p.num + 2 * i < 5 * c.num + 5
                      ELSE 5 * c.num - 5 < 3 * p.num + 2 * i /\ 3 * p.num + 2 * i <= 5 * c.num]_vars

\* Reached: cli_checker has smoothed 36 and an instantaneous rate of 0
\* (21.6) into 21.
C26_Witness ==
    /\ variant = "cli_checker"
    /\ samples = 3
    /\ stats.cpm = Rate(21)

\* ------------------------------------------------- load properties
\* check_combo has returned False at the config test and has touched
\* nothing: no thread, no dequeue, statistics and lists as constructed.
AbortedUntouched ==
    /\ mainpc \in {"idle", "failed"}
    /\ started = 0
    /\ \A w \in Workers : wpc[w] = "unstarted" /\ combo_line[w] = 0
    /\ combo_queue = <<>>
    /\ stats = FreshStats(0)
    /\ hits = <<>>
    /\ free = <<>>

\* What does hold: a file that is missing, is not JSON or holds an empty
\* document makes check_combo return False with nothing touched.
NotLoadedAborts == ~Truthy(config_file) => AbortedUntouched

\* C27: a missing or malformed workflow definition makes check_combo
\* return failure before any worker starts, with no thread created, no pair
\* dequeued and the statistics and result lists unmodified.
C27_BadConfigAborts == config_file # "workflow" => AbortedUntouched

\* ------------------------------------------------- line properties
\* Line k of the file is one that check_combo puts on the queue.
Usable(k) == LineOf(k) # <<>> /\ HasColon(LineOf(k))

\* What does hold: the username given to check_account is what the
\* stripped line has before its first colon and the password all that it
\* has after it.
SplitAtFirstColon ==
    \A r \in passed :
        /\ ~HasColon(r.username)
        /\ r.username \o <<":">> \o r.password = LineOf(r.line)

\* What does hold: a blank line or a line without a colon is never on the
\* queue, never a worker's line and never given to check_account.
IgnoredNeverHandled ==
    \A k \in 1..Len(combo_file) :
        ~Usable(k) =>
            /\ \A j \in 1..Len(combo_queue) : combo_queue[j] # k
            /\ \A w \in Workers : combo_line[w] # k
            /\ handed[k] = 0

\* The run has checked and counted every line it put on the queue.
EveryQueuedChecked ==
    /\ mainpc \notin {"idle", "failed"}
    /\ counted = Len(Queued(combo_file))
    /\ stats.checked = counted

\* C28: lines are split on the first colon only, blank lines and lines
\* without a colon are never handed to a worker, and they do not affect
\* progress or completion: once every queued pair is checked the run is
\* all done.
C28_SplitAndIgnored ==
    /\ SplitAtFirstColon
    /\ IgnoredNeverHandled
    /\ EveryQueuedChecked => AllDone(stats)

\* ------------------------------------------------ bucket properties
\* The threads were all started and every one of them has ended.
AllWorkersExited ==
    /\ mainpc \notin {"idle", "failed", "spawn"}
    /\ \A w \in 1..threads : wpc[w] = "done"

\* The counters and lists agree: each checked pair is in one bucket.
Balanced ==
    /\ stats.hits + stats.deads + Len(free) = stats.checked
    /\ stats.hits = Len(hits)

\* What does hold: with a single worker the counters and lists agree
\* once it has exited.
BalancedWithOneWorker == (threads = 1 /\ AllWorkersExited) => Balanced

\* C29: once all workers have exited, hits + deads + len(free) equals
\* checked and the hits counter equals the length of the hits list.
C29_OneBucketEach == AllWorkersExited => Balanced

\* ------------------------------------------------ export properties
\* Worker w holds a dequeued pair whose result process_result has not
\* yet put into its counter or list.
Unrecorded(w) == wpc[w] \in {"check", "process", "store", "append"}

\* C30: when check_combo gets to export_results (and when it has
\* returned True after it), no worker holds a dequeued pair whose result
\* is still to be recorded, whether the loop ended on the all-done test
\* or because no thread was alive.
C30_RecordedBeforeExport ==
    mainpc \in {"finish", "completed"} => \A w \in Workers : ~Unrecorded(w)

\* Reached: the files were written after the all-done test ended the
\* loop, with a thread still alive and a hit recorded.
C30_Witness ==
    /\ mainpc = "completed"
    /\ ~is_checking
    /\ \E w \in Workers : Alive(w)
    /\ Len(hits) = 2

\* Reached: the files were written after the loop ended because no
\* thread was alive, with results recorded.
ExportedAfterThreadsEnded ==
    /\ mainpc = "completed"
    /\ is_checking
    /\ hits # <<>>

\* ------------------------------------------- cancellation properties
\* The pairs that have left the queue.
Dequeued == Len(Queued(combo_file)) - Len(combo_queue)

\* C31: with the event set a worker dequeues at most one further pair,
\* and when all workers have exited after it every pair still on the queue
\* was never given to check_account and no counter holds more than the
\* pairs that left the queue.
C31_AtMostOneMore ==
    /\ \A w \in Workers : late[w] <= 1
    /\ (pause_event /\ Exited) =>
          /\ \A j \in 1..Len(combo_queue) :
                /\ handed[combo_queue[j]] = 0
                /\ \A r \in passed : r.line # combo_queue[j]
          /\ stats.checked <= Dequeued
          /\ stats.hits + stats.deads <= Dequeued
          /\ Len(hits) + Len(free) <= Dequeued

\* Reached: a cancelled run whose workers have all exited, one of them
\* after one more dequeue, with a pair left on the queue.
C31_Witness ==
    /\ pause_event
    /\ Exited
    /\ combo_queue # <<>>
    /\ \E w \in Workers : late[w] = 1

\* ------------------------------------------------------------------ C32
\* A step of a thread that an earlier call of check_combo started.
EarlierThreadStep(w) == w <= first /\ wpc'[w] # wpc[w]

\* A thread of an earlier call passes its loop test again.
EarlierThreadResumes(w) == w <= first /\ wpc[w] = "top" /\ wpc'[w] = "get"

\* C32: once check_combo has been called again after an interrupted call,
\* no step of a thread of the interrupted call changes the counters or the
\* result lists of the new call, and no such thread passes its loop test
\* and goes back to dequeuing.
C32_RunsApart ==
    [][\A w \in Workers :
          /\ EarlierThreadStep(w) => stats' = stats /\ hits' = hits /\ free' = free
          /\ ~EarlierThreadResumes(w)]_vars

\* ------------------------------------------------------------------ C33
\* The Cookie header that self.session.request adds to the requests of the
\* pair a worker is checking: the cookies its session holds.
CookieHeader(w) == cookies[w]

\* C33: the requests for a pair do not depend on the pairs the same worker
\* checked before: when check_account is called the session of the
\* worker's client holds no cookie, so none is sent with the pair's requests.
C33_NoSessionCarried ==
    \A w \in Workers : wpc[w] = "check" => CookieHeader(w) = {}

\* ------------------------------------------------------------------ C34
\* C34: while the workflow runs for a pair the captured-variable mapping is
\* empty at every template substitution: each request is the step's
\* template filled in from the pair alone, and the markers of a captured
\* variable in its url and headers are sent as they stand, also when the
\* last step's capture rules store that variable.
C34_NoCaptureSubstituted ==
    ck.phase # "ready" =>
        \A k \in 1..Len(ck.run.sent) :
            LET e == ck.run.sent[k]
            IN  /\ e.captured = <<>>
                /\ e.request = Sent(e.method,
                                    prepare_step(config.requests[e.step], CkUser, CkPass,
                                                 <<>>))
                /\ e.request.url = JStr(MarkedUrl)
                /\ e.request.headers = MarkedRequest(e.method).headers

\* Reached: a workflow of two or more steps has sent all its requests and
\* its last step stored the captured variable x.
C34_Witness ==
    /\ ck.phase = "ran"
    /\ Len(ck.run.sent) >= 2
    /\ Len(ck.run.sent) = Len(config.requests)
    /\ \E c \in 1..Len(ck.run.result.captured_data) :
          ck.run.result.captured_data[c].name = <<"x">>

\* ------------------------------------------------------------------ C35
Recognised(condition) ==
    Lower(condition.type) \in {"contains", "not_contains", "status_code", "json_contains"}

KnownRulesHold(response, conditions) ==
    \A j \in 1..Len(conditions) :
        Recognised(conditions[j]) => rule_holds(response, conditions[j])

NoneRecognised(conditions) ==
    conditions # <<>> /\ \A j \in 1..Len(conditions) : ~Recognised(conditions[j])

\* C35: a rule of a type other than contains, not_contains, status_code
\* and json_contains is skipped: a non-empty list evaluates to what its
\* rules of known type give, and a non-empty list with no rule of a known
\* type evaluates to true, whatever the response is.
C35_UnknownRulesSkipped ==
    fn.phase = "done" =>
        /\ fn.success = KnownRulesHold(LastSent.response, config.success_conditions)
        /\ NoneRecognised(config.success_conditions) => fn.success
        /\ NoneRecognised(config.failure_conditions) => fn.failure
        /\ (ck.phase # "ready" /\ ~ck.run.result.error)
              => /\ ck.run.result.success = fn.success
                 /\ ck.run.result.failure = fn.failure

\* Reached: a list of two rules of unknown type was evaluated to true on a
\* response that holds neither rule's value, and the workflow run made a
\* success of it.
C35_Witness ==
    /\ fn.phase = "done"
    /\ ck.phase = "ran"
    /\ Len(config.success_conditions) = 2
    /\ NoneRecognised(config.success_conditions)
    /\ config.success_conditions[1].value = A1
    /\ ~Contains(A1, LastSent.response.text)
    /\ fn.success
    /\ ck.run.result.success

\* ------------------------------------------------------------------ C36
\* C36: the total recorded as tocheck when the run starts is the number
\* of pairs put on the queue, and a run that completes without being
\* interrupted ends with checked equal to tocheck.
C36_ToCheckIsQueued ==
    /\ mainpc \notin {"idle", "failed"} => stats.tocheck = Len(Queued(combo_file))
    /\ mainpc = "completed" => stats.checked = stats.tocheck

\* ------------------------------------------------------------------ C37
\* Step i names a method that the if/elif chain of the client in use has
\* no branch for.
NoBranchFor(i) ==
    LET method == Upper(config.requests[i].method)
    IN  IF variant = "cli_checker" THEN method \notin {"GET", "POST"}
        ELSE method \notin {"GET", "POST", "PUT", "DELETE"}

\* The first step of the workflow in `ck` that the run cannot get past.
StopsAt(i) ==
    /\ CkTransportError(i) \/ NoBranchFor(i)
    /\ \A j \in 1..(i - 1) : ~CkTransportError(j) /\ ~NoBranchFor(j)

\* C37: a step whose method the client has no branch for ends the run of
\* the pair with an error that names the method: no request is sent for
\* that step, no later step is run, and no capture rule or rule list is
\* applied.
C37_UnsupportedMethodEndsRun ==
    ck.phase # "ready" =>
        \A i \in 1..Len(config.requests) :
            (NoBranchFor(i) /\ StopsAt(i))
               => /\ Len(ck.run.sent) = i - 1
                  /\ \A k \in 1..Len(ck.run.sent) : ck.run.sent[k].step < i
                  /\ ck.run.result.error
                  /\ ck.run.result.error_message =
                        <<"Unsupported HTTP method: ", Upper(config.requests[i].method)>>
                  /\ ck.run.evaluated = <<>>
                  /\ ~ck.run.result.success
                  /\ ~ck.run.result.failure
                  /\ ck.run.result.captured_data = <<>>
                  /\ ck.phase = "processed" => ck.bucket = "error"

\* Reached: HttpClient ran a workflow whose first step was answered and
\* whose second step is a patch; the run ended in an error.
C37_Witness ==
    /\ ck.phase = "processed"
    /\ variant = "cli_mode"
    /\ Len(config.requests) = 2
    /\ config.requests[2].method = "patch"
    /\ config.capture # <<>>
    /\ config.success_conditions # <<>>
    /\ Len(ck.run.sent) = 1
    /\ ck.run.result.error

\* ------------------------------------------------------------------ C38
\* What check_with_config does for line k of the file on server srv.
RunFor(k, srv) ==
    check_with_config(ClientOf(variant), SplitPair(LineOf(k)).username,
                      SplitPair(LineOf(k)).password, config, srv)

\* C38: with a workflow of no request steps, checking a pair sends no
\* request and evaluates nothing, on any server; the result it returns
\* has success, failure and error false and no captured data; and every
\* pair that is checked goes to the free list and to no counter but
\* checked.
C38_NoStepsAllFree ==
    config.requests = <<>> =>
    /\ \A k \in 1..Len(combo_file), srv \in SchedServers :
          Usable(k) => /\ RunFor(k, srv).sent = <<>>
                       /\ RunFor(k, srv).evaluated = <<>>
                       /\ RunFor(k, srv).result = InitialResult
    /\ \A w \in Workers : wpc[w] = "process" => result[w] = InitialResult
    /\ seen["hit"] = 0 /\ seen["dead"] = 0 /\ seen["error"] = 0
    /\ hits = <<>> /\ stats.hits = 0 /\ stats.deads = 0
    /\ Len(free) = seen["free"]
    /\ \A j \in 1..Len(free) : \E k \in 1..Len(combo_file) : Usable(k) /\ free[j] = LineOf(k)
    /\ mainpc = "completed" => Len(free) = Len(Queued(combo_file))

\* Reached: a run over two pairs has completed with both in the free list.
C38_Witness ==
    /\ config.requests = <<>>
    /\ mainpc = "completed"
    /\ Len(Queued(combo_file)) = 2
    /\ Len(free) = 2
    /\ stats.checked >= 1

\* ------------------------------------------------------------------ C39
\* The result either client returns for the workflow and server in `ck`.
ResultOf(client) == check_with_config(client, CkUser, CkPass, config, ck.srv).result

SameFlags ==
    /\ ResultOf("SimpleHttpClient").success = ResultOf("HttpClient").success
    /\ ResultOf("SimpleHttpClient").failure = ResultOf("HttpClient").failure
    /\ ResultOf("SimpleHttpClient").error = ResultOf("HttpClient").error

\* The two clients give the same flags for every GET workflow and every
\* server that answers or fails each step on every attempt.
ClientsAgreeOnFlags == ck.phase # "ready" => SameFlags

\* C39: for workflows of GET and POST steps and servers on which a step
\* answers or fails on every attempt, SimpleHttpClient and HttpClient
\* return the same success, failure and error flags and the same captured
\* data.
C39_ClientsAgree ==
    ck.phase # "ready" =>
        /\ SameFlags
        /\ ResultOf("SimpleHttpClient").captured_data
              = ResultOf("HttpClient").captured_data

\* ------------------------------------------------------------------ C40
\* A load of a name whose last successful save or delete was a save
\* returns a dict equal to the dict saved.
LoadGivesSaved ==
    (fn.ret.op = "load" /\ fn.was[fn.ret.name] = "saved")
       => fn.ret.loaded = fn.saved[fn.ret.name]

\* The names saved and not deleted since are all listed.
SavedAreListed ==
    fn.ret.op = "list" =>
        \A name \in ManagerNames : fn.was[name] = "saved" => name \in fn.ret.listed

\* After a successful delete a load returns None and another delete False;
\* a load of a name never saved returns None.
GoneAfterDelete ==
    /\ (fn.ret.op = "load" /\ fn.was[fn.ret.name] \in {"deleted", "never"})
          => fn.ret.loaded = PyNone
    /\ (fn.ret.op = "delete" /\ fn.ret.before = "deleted") => ~fn.ret.ok

\* C40: the manager stores configurations by name: what was saved under a
\* name is what a load of the name returns, the name is listed, and after
\* a delete the name loads as None and cannot be deleted again; a name
\* never saved loads as None.
C40_StoredByName ==
    fn.phase = "manager" => LoadGivesSaved /\ SavedAreListed /\ GoneAfterDelete

====
